---------------------------- MODULE Spec2Model ----------------------------
(***************************************************************************)
(* TranslateErrorCode: a dialog that translates a numeric code into the    *)
(* texts known for it (Win32/HRESULT, NTSTATUS, Windows Update, LDAP,      *)
(* StopCode/BugCheck).  Model of TranslateErrorCode.cpp.                   *)
(*                                                                         *)
(* Texts are sequences of units.  A unit is a string that stands for one   *)
(* wchar_t ("0", "x", "-", "U+2212", "CR", "LF", ...) or, where the        *)
(* program never looks inside it, for a whole literal (a label such as     *)
(* "\r\n\r\nWU: ", or the display string of a table entry).                *)
(*                                                                         *)
(* A 32-bit pattern that does not fit the integers of TLC is a word        *)
(* <<hi, lo>> of two 16-bit halves (value hi * 65536 + lo); a C++ int is   *)
(* an integer in -2^31 .. 2^31 - 1.                                        *)
(***************************************************************************)
EXTENDS Integers, Sequences, FiniteSets, TLC

\* #define MAXVALUELENTH 30: max chars for the input edit control
MAXVALUELENTH == 30

\* #define _MAX_ITOSTR_BASE16_COUNT (8 + 1)
MAX_ITOSTR_BASE16_COUNT == 8 + 1

\* sizeof(WCHAR)
SizeofWCHAR == 2

\* 2^16, the weight of the high half of a word
Half == 256 * 256

-----------------------------------------------------------------------------
(* 32-bit arithmetic                                                       *)

\* ToInt as a saturating conversion: a pattern above INT_MAX becomes INT_MAX
ToIntSaturating(w) ==
    IF w[1] >= Half \div 2 THEN (Half \div 2 - 1) * Half + (Half - 1)
                           ELSE w[1] * Half + w[2]

\* conversion of a 32-bit pattern to int (unsigned literal -> int map key,
\* LONGLONG -> int in StrToIntEx): the two's-complement reading
ToInt(w) ==
    IF w[1] >= Half \div 2 THEN (w[1] - Half) * Half + w[2]
                           ELSE w[1] * Half + w[2]

\* (DWORD)iValue: the bit pattern of an int
ToDWORD(i) == << (i \div Half) % Half, i % Half >>

\* w * base + d, modulo 2^32
MulAdd(w, base, d) ==
    LET lo == w[2] * base + d
        hi == w[1] * base + (lo \div Half)
    IN  << hi % Half, lo % Half >>

\* Negate as the complement of the bits, without the increment
NegateOnesComplement(w) == << Half - 1 - w[1], Half - 1 - w[2] >>

\* -w, modulo 2^32
Negate(w) ==
    IF w[2] = 0 THEN << (Half - w[1]) % Half, 0 >>
                ELSE << Half - 1 - w[1], Half - w[2] >>

\* w divided by ten: <<quotient word, remainder>>
DivTen(w) ==
    LET t == (w[1] % 10) * Half + w[2]
    IN  << << w[1] \div 10, t \div 10 >>, t % 10 >>

-----------------------------------------------------------------------------
(* The code tables, in source order.  An entry <<hi, lo, s>> is the        *)
(* statement  g_mX[0xHHHHLLLL] = L"s";                                     *)

\* the assignments of setBugCheckCodes(), lines 103-479
BugCheckCodes == <<
    <<0, 1, "APC_INDEX_MISMATCH">>,
    <<0, 2, "DEVICE_QUEUE_NOT_BUSY">>,
    <<0, 3, "INVALID_AFFINITY_SET">>,
    <<0, 4, "INVALID_DATA_ACCESS_TRAP">>,
    <<0, 5, "INVALID_PROCESS_ATTACH_ATTEMPT">>,
    <<0, 6, "INVALID_PROCESS_DETACH_ATTEMPT">>,
    <<0, 7, "INVALID_SOFTWARE_INTERRUPT">>,
    <<0, 8, "IRQL_NOT_DISPATCH_LEVEL">>,
    <<0, 9, "IRQL_NOT_GREATER_OR_EQUAL">>,
    <<0, 10, "IRQL_NOT_LESS_OR_EQUAL">>,
    <<0, 11, "NO_EXCEPTION_HANDLING_SUPPORT">>,
    <<0, 12, "MAXIMUM_WAIT_OBJECTS_EXCEEDED">>,
    <<0, 13, "MUTEX_LEVEL_NUMBER_VIOLATION">>,
    <<0, 14, "NO_USER_MODE_CONTEXT">>,
    <<0, 15, "SPIN_LOCK_ALREADY_OWNED">>,
    <<0, 16, "SPIN_LOCK_NOT_OWNED">>,
    <<0, 17, "THREAD_NOT_MUTEX_OWNER">>,
    <<0, 18, "TRAP_CAUSE_UNKNOWN">>,
    <<0, 19, "EMPTY_THREAD_REAPER_LIST">>,
    <<0, 20, "CREATE_DELETE_LOCK_NOT_LOCKED">>,
    <<0, 21, "LAST_CHANCE_CALLED_FROM_KMODE">>,
    <<0, 22, "CID_HANDLE_CREATION">>,
    <<0, 23, "CID_HANDLE_DELETION">>,
    <<0, 24, "REFERENCE_BY_POINTER">>,
    <<0, 25, "BAD_POOL_HEADER">>,
    <<0, 26, "MEMORY_MANAGEMENT">>,
    <<0, 27, "PFN_SHARE_COUNT">>,
    <<0, 28, "PFN_REFERENCE_COUNT">>,
    <<0, 29, "NO_SPIN_LOCK_AVAILABLE">>,
    <<0, 30, "KMODE_EXCEPTION_NOT_HANDLED">>,
    <<0, 31, "SHARED_RESOURCE_CONV_ERROR">>,
    <<0, 32, "KERNEL_APC_PENDING_DURING_EXIT">>,
    <<0, 33, "QUOTA_UNDERFLOW">>,
    <<0, 34, "FILE_SYSTEM">>,
    <<0, 35, "FAT_FILE_SYSTEM">>,
    <<0, 36, "NTFS_FILE_SYSTEM">>,
    <<0, 37, "NPFS_FILE_SYSTEM">>,
    <<0, 38, "CDFS_FILE_SYSTEM">>,
    <<0, 39, "RDR_FILE_SYSTEM">>,
    <<0, 40, "CORRUPT_ACCESS_TOKEN">>,
    <<0, 41, "SECURITY_SYSTEM">>,
    <<0, 42, "INCONSISTENT_IRP">>,
    <<0, 43, "PANIC_STACK_SWITCH">>,
    <<0, 44, "PORT_DRIVER_INTERNAL">>,
    <<0, 45, "SCSI_DISK_DRIVER_INTERNAL">>,
    <<0, 46, "DATA_BUS_ERROR">>,
    <<0, 47, "INSTRUCTION_BUS_ERROR">>,
    <<0, 48, "SET_OF_INVALID_CONTEXT">>,
    <<0, 49, "PHASE0_INITIALIZATION_FAILED">>,
    <<0, 50, "PHASE1_INITIALIZATION_FAILED">>,
    <<0, 51, "UNEXPECTED_INITIALIZATION_CALL">>,
    <<0, 52, "CACHE_MANAGER">>,
    <<0, 53, "NO_MORE_IRP_STACK_LOCATIONS">>,
    <<0, 54, "DEVICE_REFERENCE_COUNT_NOT_ZERO">>,
    <<0, 55, "FLOPPY_INTERNAL_ERROR">>,
    <<0, 56, "SERIAL_DRIVER_INTERNAL">>,
    <<0, 57, "SYSTEM_EXIT_OWNED_MUTEX">>,
    <<0, 58, "SYSTEM_UNWIND_PREVIOUS_USER">>,
    <<0, 59, "SYSTEM_SERVICE_EXCEPTION">>,
    <<0, 60, "INTERRUPT_UNWIND_ATTEMPTED">>,
    <<0, 61, "INTERRUPT_EXCEPTION_NOT_HANDLED">>,
    <<0, 62, "MULTIPROCESSOR_CONFIGURATION_NOT_SUPPORTED">>,
    <<0, 63, "NO_MORE_SYSTEM_PTES">>,
    <<0, 64, "TARGET_MDL_TOO_SMALL">>,
    <<0, 65, "MUST_SUCCEED_POOL_EMPTY">>,
    <<0, 66, "ATDISK_DRIVER_INTERNAL">>,
    <<0, 67, "NO_SUCH_PARTITION">>,
    <<0, 68, "MULTIPLE_IRP_COMPLETE_REQUESTS">>,
    <<0, 69, "INSUFFICIENT_SYSTEM_MAP_REGS">>,
    <<0, 70, "DEREF_UNKNOWN_LOGON_SESSION">>,
    <<0, 71, "REF_UNKNOWN_LOGON_SESSION">>,
    <<0, 72, "CANCEL_STATE_IN_COMPLETED_IRP">>,
    <<0, 73, "PAGE_FAULT_WITH_INTERRUPTS_OFF">>,
    <<0, 74, "IRQL_GT_ZERO_AT_SYSTEM_SERVICE">>,
    <<0, 75, "STREAMS_INTERNAL_ERROR">>,
    <<0, 76, "FATAL_UNHANDLED_HARD_ERROR">>,
    <<0, 77, "NO_PAGES_AVAILABLE">>,
    <<0, 78, "PFN_LIST_CORRUPT">>,
    <<0, 79, "NDIS_INTERNAL_ERROR">>,
    <<0, 80, "PAGE_FAULT_IN_NONPAGED_AREA">>,
    <<0, 81, "REGISTRY_ERROR">>,
    <<0, 82, "MAILSLOT_FILE_SYSTEM">>,
    <<0, 83, "NO_BOOT_DEVICE">>,
    <<0, 84, "LM_SERVER_INTERNAL_ERROR">>,
    <<0, 85, "DATA_COHERENCY_EXCEPTION">>,
    <<0, 86, "INSTRUCTION_COHERENCY_EXCEPTION">>,
    <<0, 87, "XNS_INTERNAL_ERROR">>,
    <<0, 88, "FTDISK_INTERNAL_ERROR">>,
    <<0, 89, "PINBALL_FILE_SYSTEM">>,
    <<0, 90, "CRITICAL_SERVICE_FAILED">>,
    <<0, 91, "SET_ENV_VAR_FAILED">>,
    <<0, 92, "HAL_INITIALIZATION_FAILED">>,
    <<0, 93, "UNSUPPORTED_PROCESSOR">>,
    <<0, 94, "OBJECT_INITIALIZATION_FAILED">>,
    <<0, 95, "SECURITY_INITIALIZATION_FAILED">>,
    <<0, 96, "PROCESS_INITIALIZATION_FAILED">>,
    <<0, 97, "HAL1_INITIALIZATION_FAILED">>,
    <<0, 98, "OBJECT1_INITIALIZATION_FAILED">>,
    <<0, 99, "SECURITY1_INITIALIZATION_FAILED">>,
    <<0, 100, "SYMBOLIC_INITIALIZATION_FAILED">>,
    <<0, 101, "MEMORY1_INITIALIZATION_FAILED">>,
    <<0, 102, "CACHE_INITIALIZATION_FAILED">>,
    <<0, 103, "CONFIG_INITIALIZATION_FAILED">>,
    <<0, 104, "FILE_INITIALIZATION_FAILED">>,
    <<0, 105, "IO1_INITIALIZATION_FAILED">>,
    <<0, 106, "LPC_INITIALIZATION_FAILED">>,
    <<0, 107, "PROCESS1_INITIALIZATION_FAILED">>,
    <<0, 108, "REFMON_INITIALIZATION_FAILED">>,
    <<0, 109, "SESSION1_INITIALIZATION_FAILED">>,
    <<0, 110, "SESSION2_INITIALIZATION_FAILED">>,
    <<0, 111, "SESSION3_INITIALIZATION_FAILED">>,
    <<0, 112, "SESSION4_INITIALIZATION_FAILED">>,
    <<0, 113, "SESSION5_INITIALIZATION_FAILED">>,
    <<0, 114, "ASSIGN_DRIVE_LETTERS_FAILED">>,
    <<0, 115, "CONFIG_LIST_FAILED">>,
    <<0, 116, "BAD_SYSTEM_CONFIG_INFO">>,
    <<0, 117, "CANNOT_WRITE_CONFIGURATION">>,
    <<0, 118, "PROCESS_HAS_LOCKED_PAGES">>,
    <<0, 119, "KERNEL_STACK_INPAGE_ERROR">>,
    <<0, 120, "PHASE0_EXCEPTION">>,
    <<0, 121, "MISMATCHED_HAL">>,
    <<0, 122, "KERNEL_DATA_INPAGE_ERROR">>,
    <<0, 123, "INACCESSIBLE_BOOT_DEVICE">>,
    <<0, 124, "BUGCODE_NDIS_DRIVER">>,
    <<0, 125, "INSTALL_MORE_MEMORY">>,
    <<0, 126, "SYSTEM_THREAD_EXCEPTION_NOT_HANDLED">>,
    <<0, 127, "UNEXPECTED_KERNEL_MODE_TRAP">>,
    <<0, 128, "NMI_HARDWARE_FAILURE">>,
    <<0, 129, "SPIN_LOCK_INIT_FAILURE">>,
    <<0, 130, "DFS_FILE_SYSTEM">>,
    <<0, 133, "SETUP_FAILURE">>,
    <<0, 139, "MBR_CHECKSUM_MISMATCH">>,
    <<0, 142, "KERNEL_MODE_EXCEPTION_NOT_HANDLED">>,
    <<0, 143, "PP0_INITIALIZATION_FAILED">>,
    <<0, 144, "PP1_INITIALIZATION_FAILED">>,
    <<0, 146, "UP_DRIVER_ON_MP_SYSTEM">>,
    <<0, 147, "INVALID_KERNEL_HANDLE">>,
    <<0, 148, "KERNEL_STACK_LOCKED_AT_EXIT">>,
    <<0, 150, "INVALID_WORK_QUEUE_ITEM">>,
    <<0, 151, "BOUND_IMAGE_UNSUPPORTED">>,
    <<0, 152, "END_OF_NT_EVALUATION_PERIOD">>,
    <<0, 153, "INVALID_REGION_OR_SEGMENT">>,
    <<0, 154, "SYSTEM_LICENSE_VIOLATION">>,
    <<0, 155, "UDFS_FILE_SYSTEM">>,
    <<0, 156, "MACHINE_CHECK_EXCEPTION">>,
    <<0, 158, "USER_MODE_HEALTH_MONITOR">>,
    <<0, 159, "DRIVER_POWER_STATE_FAILURE">>,
    <<0, 160, "INTERNAL_POWER_ERROR">>,
    <<0, 161, "PCI_BUS_DRIVER_INTERNAL">>,
    <<0, 162, "MEMORY_IMAGE_CORRUPT">>,
    <<0, 163, "ACPI_DRIVER_INTERNAL">>,
    <<0, 164, "CNSS_FILE_SYSTEM_FILTER">>,
    <<0, 165, "ACPI_BIOS_ERROR">>,
    <<0, 167, "BAD_EXHANDLE">>,
    <<0, 172, "HAL_MEMORY_ALLOCATION">>,
    <<0, 173, "VIDEO_DRIVER_DEBUG_REPORT_REQUEST">>,
    <<0, 177, "BGI_DETECTED_VIOLATION">>,
    <<0, 180, "VIDEO_DRIVER_INIT_FAILURE">>,
    <<0, 184, "ATTEMPTED_SWITCH_FROM_DPC">>,
    <<0, 185, "CHIPSET_DETECTED_ERROR">>,
    <<0, 186, "SESSION_HAS_VALID_VIEWS_ON_EXIT">>,
    <<0, 187, "NETWORK_BOOT_INITIALIZATION_FAILED">>,
    <<0, 188, "NETWORK_BOOT_DUPLICATE_ADDRESS">>,
    <<0, 189, "INVALID_HIBERNATED_STATE">>,
    <<0, 190, "ATTEMPTED_WRITE_TO_READONLY_MEMORY">>,
    <<0, 191, "MUTEX_ALREADY_OWNED">>,
    <<0, 193, "SPECIAL_POOL_DETECTED_MEMORY_CORRUPTION">>,
    <<0, 194, "BAD_POOL_CALLER">>,
    <<0, 196, "DRIVER_VERIFIER_DETECTED_VIOLATION">>,
    <<0, 197, "DRIVER_CORRUPTED_EXPOOL">>,
    <<0, 198, "DRIVER_CAUGHT_MODIFYING_FREED_POOL">>,
    <<0, 199, "TIMER_OR_DPC_INVALID">>,
    <<0, 200, "IRQL_UNEXPECTED_VALUE">>,
    <<0, 201, "DRIVER_VERIFIER_IOMANAGER_VIOLATION">>,
    <<0, 202, "PNP_DETECTED_FATAL_ERROR">>,
    <<0, 203, "DRIVER_LEFT_LOCKED_PAGES_IN_PROCESS">>,
    <<0, 204, "PAGE_FAULT_IN_FREED_SPECIAL_POOL">>,
    <<0, 205, "PAGE_FAULT_BEYOND_END_OF_ALLOCATION">>,
    <<0, 206, "DRIVER_UNLOADED_WITHOUT_CANCELLING_PENDING_OPERATIONS">>,
    <<0, 207, "TERMINAL_SERVER_DRIVER_MADE_INCORRECT_MEMORY_REFERENCE">>,
    <<0, 208, "DRIVER_CORRUPTED_MMPOOL">>,
    <<0, 209, "DRIVER_IRQL_NOT_LESS_OR_EQUAL">>,
    <<0, 210, "BUGCODE_ID_DRIVER">>,
    <<0, 211, "DRIVER_PORTION_MUST_BE_NONPAGED">>,
    <<0, 212, "SYSTEM_SCAN_AT_RAISED_IRQL_CAUGHT_IMPROPER_DRIVER_UNLOAD">>,
    <<0, 213, "DRIVER_PAGE_FAULT_IN_FREED_SPECIAL_POOL">>,
    <<0, 214, "DRIVER_PAGE_FAULT_BEYOND_END_OF_ALLOCATION">>,
    <<0, 215, "DRIVER_UNMAPPING_INVALID_VIEW">>,
    <<0, 216, "DRIVER_USED_EXCESSIVE_PTES">>,
    <<0, 217, "LOCKED_PAGES_TRACKER_CORRUPTION">>,
    <<0, 218, "SYSTEM_PTE_MISUSE">>,
    <<0, 219, "DRIVER_CORRUPTED_SYSPTES">>,
    <<0, 220, "DRIVER_INVALID_STACK_ACCESS">>,
    <<0, 222, "POOL_CORRUPTION_IN_FILE_AREA">>,
    <<0, 223, "IchMPERSONATING_WORKER_THREAD">>,
    <<0, 224, "Schwerwiegender Fehler<U+00A0>C1250">>,
    <<0, 225, "WORKER_THREAD_RETURNED_AT_BAD_IRQL">>,
    <<0, 226, "MANUALLY_INITIATED_CRASH">>,
    <<0, 227, "RESOURCE_NOT_OWNED">>,
    <<0, 228, "WORKER_INVALID">>,
    <<0, 230, "DRIVER_VERIFIER_DMA_VIOLATION">>,
    <<0, 231, "INVALID_FLOATING_POINT_STATE">>,
    <<0, 232, "INVALID_CANCEL_OF_FILE_OPEN">>,
    <<0, 233, "ACTIVE_EX_WORKER_THREAD_TERMINATION">>,
    <<0, 234, "THREAD_STUCK_IN_DEVICE_DRIVER">>,
    <<0, 235, "DIRTY_MAPPED_PAGES_CONGESTION">>,
    <<0, 236, "SESSION_HAS_VALID_SPECIAL_POOL_ON_EXIT">>,
    <<0, 237, "UNMOUNTABLE_BOOT_VOLUME">>,
    <<0, 239, "CRITICAL_PROCESS_DIED">>,
    <<0, 240, "STORAGE_MINIPORT_ERROR">>,
    <<0, 241, "SCSI_VERIFIER_DETECTED_VIOLATION">>,
    <<0, 242, "HARDWARE_INTERRUPT_STORM">>,
    <<0, 243, "DISORDERLY_SHUTDOWN">>,
    <<0, 244, "CRITICAL_OBJECT_TERMINATION">>,
    <<0, 245, "FLTMGR_FILE_SYSTEM">>,
    <<0, 246, "PCI_VERIFIER_DETECTED_VIOLATION">>,
    <<0, 247, "DRIVER_OVERRAN_STACK_BUFFER">>,
    <<0, 248, "RAMDISK_BOOT_INITIALIZATION_FAILED">>,
    <<0, 249, "DRIVER_RETURNED_STATUS_REPARSE_FOR_VOLUME_OPEN">>,
    <<0, 250, "HTTP_DRIVER_CORRUPTED">>,
    <<0, 252, "ATTEMPTED_EXECUTE_OF_NOEXECUTE_MEMORY">>,
    <<0, 253, "DIRTY_NOWRITE_PAGES_CONGESTION">>,
    <<0, 254, "BUGCODE_USB_DRIVER">>,
    <<0, 255, "RESERVE_QUEUE_OVERFLOW">>,
    <<0, 256, "LOADER_BLOCK_MISMATCH">>,
    <<0, 257, "CLOCK_WATCHDOG_TIMEOUT">>,
    <<0, 258, "DPC_WATCHDOG_TIMEOUT">>,
    <<0, 259, "MUP_FILE_SYSTEM">>,
    <<0, 260, "AGP_INVALID_ACCESS">>,
    <<0, 261, "AGP_GART_CORRUPTION">>,
    <<0, 262, "AGP_ILLEGALLY_REPROGRAMMED">>,
    <<0, 264, "THIRD_PARTY_FILE_SYSTEM_FAILURE">>,
    <<0, 265, "CRITICAL_STRUCTURE_CORRUPTION">>,
    <<0, 266, "APP_TAGGING_INITIALIZATION_FAILED">>,
    <<0, 268, "FSRTL_EXTRA_CREATE_PARAMETER_VIOLATION">>,
    <<0, 269, "WDF_VIOLATION">>,
    <<0, 270, "VIDEO_MEMORY_MANAGEMENT_INTERNAL">>,
    <<0, 271, "RESOURCE_MANAGER_EXCEPTION_NOT_HANDLED">>,
    <<0, 273, "RECURSIVE_NMI">>,
    <<0, 274, "MSRPC_STATE_VIOLATION">>,
    <<0, 275, "VIDEO_DXGKRNL_FATAL_ERROR">>,
    <<0, 276, "VIDEO_SHADOW_DRIVER_FATAL_ERROR">>,
    <<0, 277, "AGP_INTERNAL">>,
    <<0, 278, "VIDEO_TDR_FAILURE">>,
    <<0, 279, "VIDEO_TDR_TIMEOUT_DETECTED">>,
    <<0, 281, "VIDEO_SCHEDULER_INTERNAL_ERROR">>,
    <<0, 282, "EM_INITIALIZATION_FAILURE">>,
    <<0, 283, "DRIVER_RETURNED_HOLDING_CANCEL_LOCK">>,
    <<0, 284, "ATTEMPTED_WRITE_TO_CM_PROTECTED_STORAGE">>,
    <<0, 285, "EVENT_TRACING_FATAL_ERROR">>,
    <<0, 286, "TOO_MANY_RECURSIVE_FAULTS">>,
    <<0, 287, "INVALID_DRIVER_HANDLE">>,
    <<0, 288, "BITLOCKER_FATAL_ERROR">>,
    <<0, 289, "DRIVER_VIOLATION">>,
    <<0, 290, "WHEA_INTERNAL_ERROR">>,
    <<0, 291, "CRYPTO_SELF_TEST_FAILURE">>,
    <<0, 292, "WHEA_UNCORRECTABLE_ERROR">>,
    <<0, 293, "NMR_INVALID_STATE">>,
    <<0, 294, "NETIO_INVALID_POOL_CALLER">>,
    <<0, 295, "PAGE_NOT_ZERO">>,
    <<0, 296, "WORKER_THREAD_RETURNED_WITH_BAD_IO_PRIORITY">>,
    <<0, 297, "WORKER_THREAD_RETURNED_WITH_BAD_PAGING_IO_PRIORITY">>,
    <<0, 298, "MUI_NO_VALID_SYSTEM_LANGUAGE">>,
    <<0, 299, "FAULTY_HARDWARE_CORRUPTED_PAGE">>,
    <<0, 300, "EXFAT_FILE_SYSTEM">>,
    <<0, 301, "VOLSNAP_OVERLAPPED_TABLE_ACCESS">>,
    <<0, 302, "INVALID_MDL_RANGE">>,
    <<0, 303, "VHD_BOOT_INITIALIZATION_FAILED">>,
    <<0, 304, "DYNAMIC_ADD_PROCESSOR_MISMATCH">>,
    <<0, 305, "INVALID_EXTENDED_PROCESSOR_STATE">>,
    <<0, 306, "RESOURCE_OWNER_POINTER_INVALID">>,
    <<0, 307, "DPC_WATCHDOG_VIOLATION">>,
    <<0, 308, "DRIVE_EXTENDER">>,
    <<0, 309, "REGISTRY_FILTER_DRIVER_EXCEPTION">>,
    <<0, 310, "VHD_BOOT_HOST_VOLUME_NOT_ENOUGH_SPACE">>,
    <<0, 311, "WIN32K_HANDLE_MANAGER">>,
    <<0, 312, "GPIO_CONTROLLER_DRIVER_ERROR">>,
    <<0, 313, "KERNEL_SECURITY_CHECK_FAILURE">>,
    <<0, 314, "KERNEL_MODE_HEAP_CORRUPTION">>,
    <<0, 315, "PASSIVE_INTERRUPT_ERROR">>,
    <<0, 316, "INVALID_IO_BOOST_STATE">>,
    <<0, 317, "CRITICAL_INITIALIZATION_FAILURE">>,
    <<0, 320, "STORAGE_DEVICE_ABNORMALITY_DETECTED">>,
    <<0, 323, "PROCESSOR_DRIVER_INTERNAL">>,
    <<0, 324, "BUGCODE_USB3_DRIVER">>,
    <<0, 325, "SECURE_BOOT_VIOLATION">>,
    <<0, 327, "ABNORMAL_RESET_DETECTED">>,
    <<0, 329, "REFS_FILE_SYSTEM">>,
    <<0, 330, "KERNEL_WMI_INTERNAL">>,
    <<0, 331, "SOC_SUBSYSTEM_FAILURE">>,
    <<0, 332, "FATAL_ABNORMAL_RESET_ERROR">>,
    <<0, 333, "EXCEPTION_SCOPE_INVALID">>,
    <<0, 334, "SOC_CRITICAL_DEVICE_REMOVED">>,
    <<0, 335, "PDC_WATCHDOG_TIMEOUT">>,
    <<0, 336, "TCPIP_AOAC_NIC_ACTIVE_REFERENCE_LEAK">>,
    <<0, 337, "UNSUPPORTED_INSTRUCTION_MODE">>,
    <<0, 338, "INVALID_PUSH_LOCK_FLAGS">>,
    <<0, 339, "KERNEL_LOCK_ENTRY_LEAKED_ON_THREAD_TERMINATION">>,
    <<0, 340, "UNEXPECTED_STORE_EXCEPTION">>,
    <<0, 341, "OS_DATA_TAMPERING">>,
    <<0, 343, "KERNEL_THREAD_PRIORITY_FLOOR_VIOLATION">>,
    <<0, 344, "ILLEGAL_IOMMU_PAGE_FAULT">>,
    <<0, 345, "HAL_ILLEGAL_IOMMU_PAGE_FAULT">>,
    <<0, 346, "SDBUS_INTERNAL_ERROR">>,
    <<0, 347, "WORKER_THREAD_RETURNED_WITH_SYSTEM_PAGE_PRIORITY_ACTIVE">>,
    <<0, 352, "WIN32K_ATOMIC_CHECK_FAILURE">>,
    <<0, 354, "KERNEL_AUTO_BOOST_INVALID_LOCK_RELEASE">>,
    <<0, 355, "WORKER_THREAD_TEST_CONDITION">>,
    <<0, 356, "WIN32K_CRITICAL_FAILURE">>,
    <<0, 364, "INVALID_RUNDOWN_PROTECTION_FLAGS">>,
    <<0, 365, "INVALID_SLOT_ALLOCATOR_FLAGS">>,
    <<0, 366, "ERESOURCE_INVALID_RELEASE">>,
    <<0, 368, "CLUSTER_CSV_CLUSSVC_DISCONNECT_WATCHDOG">>,
    <<0, 369, "CRYPTO_LIBRARY_INTERNAL_ERROR">>,
    <<0, 371, "COREMSGCALL_INTERNAL_ERROR">>,
    <<0, 372, "COREMSG_INTERNAL_ERROR">>,
    <<0, 376, "ELAM_DRIVER_DETECTED_FATAL_ERROR">>,
    <<0, 379, "PROFILER_CONFIGURATION_ILLEGAL">>,
    <<0, 382, "MICROCODE_REVISION_MISMATCH">>,
    <<0, 391, "VIDEO_DWMINIT_TIMEOUT_FALLBACK_BDD">>,
    <<0, 393, "BAD_OBJECT_HEADER">>,
    <<0, 395, "SECURE_KERNEL_ERROR">>,
    <<0, 396, "HYPERGUARD_VIOLATION">>,
    <<0, 397, "SECURE_FAULT_UNHANDLED">>,
    <<0, 398, "KERNEL_PARTITION_REFERENCE_VIOLATION">>,
    <<0, 401, "PF_DETECTED_CORRUPTION">>,
    <<0, 402, "KERNEL_AUTO_BOOST_LOCK_ACQUISITION_WITH_RAISED_IRQL">>,
    <<0, 406, "LOADER_ROLLBACK_DETECTED">>,
    <<0, 407, "WIN32K_SECURITY_FAILURE">>,
    <<0, 409, "KERNEL_STORAGE_SLOT_IN_USE">>,
    <<0, 410, "WORKER_THREAD_RETURNED_WHILE_ATTACHED_TO_SILO">>,
    <<0, 411, "TTM_FATAL_ERROR">>,
    <<0, 412, "WIN32K_POWER_WATCHDOG_TIMEOUT">>,
    <<0, 416, "TTM_WATCHDOG_TIMEOUT">>,
    <<0, 418, "WIN32K_CALLOUT_WATCHDOG_BUGCHECK">>,
    <<0, 426, "EXCEPTION_ON_INVALID_STACK">>,
    <<0, 427, "UNWIND_ON_INVALID_STACK">>,
    <<0, 454, "FAST_ERESOURCE_PRECONDITION_VIOLATION">>,
    <<0, 455, "STORE_DATA_STRUCTURE_CORRUPTION">>,
    <<0, 456, "MANUALLY_INITIATED_POWER_BUTTON_HOLD">>,
    <<0, 458, "SYNTHETIC_WATCHDOG_TIMEOUT">>,
    <<0, 459, "INVALID_SILO_DETACH">>,
    <<0, 461, "INVALID_CALLBACK_STACK_ADDRESS">>,
    <<0, 462, "INVALID_KERNEL_STACK_ADDRESS">>,
    <<0, 463, "HARDWARE_WATCHDOG_TIMEOUT">>,
    <<0, 464, "CPI_FIRMWARE_WATCHDOG_TIMEOUT">>,
    <<0, 466, "WORKER_THREAD_INVALID_STATE">>,
    <<0, 467, "WFP_INVALID_OPERATION">>,
    <<0, 469, "DRIVER_PNP_WATCHDOG">>,
    <<0, 470, "WORKER_THREAD_RETURNED_WITH_NON_DEFAULT_WORKLOAD_CLASS">>,
    <<0, 471, "EFS_FATAL_ERROR">>,
    <<0, 472, "UCMUCSI_FAILURE">>,
    <<0, 473, "HAL_IOMMU_INTERNAL_ERROR">>,
    <<0, 474, "HAL_BLOCKED_PROCESSOR_INTERNAL_ERROR">>,
    <<0, 475, "IPI_WATCHDOG_TIMEOUT">>,
    <<0, 476, "DMA_COMMON_BUFFER_VECTOR_ERROR">>,
    <<0, 477, "BUGCODE_MBBADAPTER_DRIVER">>,
    <<0, 478, "BUGCODE_WIFIADAPTER_DRIVER">>,
    <<0, 479, "PROCESSOR_START_TIMEOUT">>,
    <<0, 484, "VIDEO_DXGKRNL_SYSMM_FATAL_ERROR">>,
    <<0, 489, "ILLEGAL_ATS_INITIALIZATION">>,
    <<0, 490, "SECURE_PCI_CONFIG_SPACE_ACCESS_VIOLATION">>,
    <<0, 491, "DAM_WATCHDOG_TIMEOUT">>,
    <<0, 493, "HANDLE_ERROR_ON_CRITICAL_THREAD">>,
    <<0, 854, "XBOX_ERACTRL_CS_TIMEOUT">>,
    <<0, 3070, "BC_BLUETOOTH_VERIFIER_FAULT">>,
    <<0, 3071, "BC_BTHMINI_VERIFIER_FAULT">>,
    <<2, 1, "HYPERVISOR_ERROR">>,
    <<4096, 126, "SYSTEM_THREAD_EXCEPTION_NOT_HANDLED_M">>,
    <<4096, 127, "UNEXPECTED_KERNEL_MODE_TRAP_M">>,
    <<4096, 142, "KERNEL_MODE_EXCEPTION_NOT_HANDLED_M">>,
    <<4096, 234, "THREAD_STUCK_IN_DEVICE_DRIVER_M">>,
    <<16384, 138, "THREAD_TERMINATE_HELD_MUTEX">>,
    <<49152, 536, "STATUS_CANNOT_LOAD_REGISTRY_FILE">>,
    <<49152, 538, "WINLOGON_FATAL_ERROR">>,
    <<49152, 545, "STATUS_IMAGE_CHECKSUM_MISMATCH">>,
    <<57005, 57005, "MANUALLY_INITIATED_CRASH1">>
  >>

\* the assignments of setLDAPCodes(), lines 501-563
LDAPCodes == <<
    <<0, 0, "LDAP_SUCCESS">>,
    <<0, 1, "LDAP_OPERATIONS_ERROR">>,
    <<0, 2, "LDAP_PROTOCOL_ERROR">>,
    <<0, 3, "LDAP_TIMELIMIT_EXCEEDED">>,
    <<0, 4, "LDAP_SIZELIMIT_EXCEEDED">>,
    <<0, 5, "LDAP_COMPARE_FALSE">>,
    <<0, 6, "LDAP_COMPARE_TRUE">>,
    <<0, 7, "LDAP_AUTH_METHOD_NOT_SUPPORTED">>,
    <<0, 8, "LDAP_STRONG_AUTH_REQUIRED">>,
    <<0, 9, "LDAP_REFERRAL_V2">>,
    <<0, 9, "LDAP_PARTIAL_RESULTS">>,
    <<0, 10, "LDAP_REFERRAL">>,
    <<0, 11, "LDAP_ADMIN_LIMIT_EXCEEDED">>,
    <<0, 12, "LDAP_UNAVAILABLE_CRIT_EXTENSION">>,
    <<0, 13, "LDAP_CONFIDENTIALITY_REQUIRED">>,
    <<0, 14, "LDAP_SASL_BIND_IN_PROGRESS">>,
    <<0, 16, "LDAP_NO_SUCH_ATTRIBUTE">>,
    <<0, 17, "LDAP_UNDEFINED_TYPE">>,
    <<0, 18, "LDAP_INAPPROPRIATE_MATCHING">>,
    <<0, 19, "LDAP_CONSTRAINT_VIOLATION">>,
    <<0, 20, "LDAP_ATTRIBUTE_OR_VALUE_EXISTS">>,
    <<0, 21, "LDAP_INVALID_SYNTAX">>,
    <<0, 32, "LDAP_NO_SUCH_OBJECT">>,
    <<0, 33, "LDAP_ALIAS_PROBLEM">>,
    <<0, 34, "LDAP_INVALID_DN_SYNTAX">>,
    <<0, 35, "LDAP_IS_LEAF">>,
    <<0, 36, "LDAP_ALIAS_DEREF_PROBLEM">>,
    <<0, 48, "LDAP_INAPPROPRIATE_AUTH">>,
    <<0, 49, "LDAP_INVALID_CREDENTIALS">>,
    <<0, 50, "LDAP_INSUFFICIENT_RIGHTS">>,
    <<0, 51, "LDAP_BUSY">>,
    <<0, 52, "LDAP_UNAVAILABLE">>,
    <<0, 53, "LDAP_UNWILLING_TO_PERFORM">>,
    <<0, 54, "LDAP_LOOP_DETECT">>,
    <<0, 60, "LDAP_SORT_CONTROL_MISSING">>,
    <<0, 61, "LDAP_OFFSET_RANGE_ERROR">>,
    <<0, 64, "LDAP_NAMING_VIOLATION">>,
    <<0, 65, "LDAP_OBJECT_CLASS_VIOLATION">>,
    <<0, 66, "LDAP_NOT_ALLOWED_ON_NONLEAF">>,
    <<0, 67, "LDAP_NOT_ALLOWED_ON_RDN">>,
    <<0, 68, "LDAP_ALREADY_EXISTS">>,
    <<0, 69, "LDAP_NO_OBJECT_CLASS_MODS">>,
    <<0, 70, "LDAP_RESULTS_TOO_LARGE">>,
    <<0, 71, "LDAP_AFFECTS_MULTIPLE_DSAS">>,
    <<0, 76, "LDAP_VIRTUAL_LIST_VIEW_ERROR">>,
    <<0, 80, "LDAP_OTHER">>,
    <<0, 81, "LDAP_SERVER_DOWN">>,
    <<0, 82, "LDAP_LOCAL_ERROR">>,
    <<0, 83, "LDAP_ENCODING_ERROR">>,
    <<0, 84, "LDAP_DECODING_ERROR">>,
    <<0, 85, "LDAP_TIMEOUT">>,
    <<0, 86, "LDAP_AUTH_UNKNOWN">>,
    <<0, 87, "LDAP_FILTER_ERROR">>,
    <<0, 88, "LDAP_USER_CANCELLED">>,
    <<0, 89, "LDAP_PARAM_ERROR">>,
    <<0, 90, "LDAP_NO_MEMORY">>,
    <<0, 91, "LDAP_CONNECT_ERROR">>,
    <<0, 92, "LDAP_NOT_SUPPORTED">>,
    <<0, 94, "LDAP_NO_RESULTS_RETURNED">>,
    <<0, 93, "LDAP_CONTROL_NOT_FOUND">>,
    <<0, 95, "LDAP_MORE_RESULTS_TO_RETURN">>,
    <<0, 96, "LDAP_CLIENT_LOOP">>,
    <<0, 97, "LDAP_REFERRAL_LIMIT_EXCEEDED">>
  >>

\* the assignments of setWUCodes(), lines 588-1197
WUCodes == <<
    <<36, 1, "WU_S_SERVICE_STOP\r\n(Windows Update Agent was stopped successfully)">>,
    <<36, 2, "WU_S_SELFUPDATE\r\n(Windows Update Agent updated itself)">>,
    <<36, 3, "WU_S_UPDATE_ERROR\r\n(Operation completed successfully but there were errors applying the updates)">>,
    <<36, 4, "WU_S_MARKED_FOR_DISCONNECT\r\n(A callback was marked to be disconnected later because the request to disconnect the operation came while a callback was executing)">>,
    <<36, 5, "WU_S_REBOOT_REQUIRED\r\n(The system must be restarted to complete installation of the update)">>,
    <<36, 6, "WU_S_ALREADY_INSTALLED\r\n(The update to be installed is already installed on the system)">>,
    <<36, 7, "WU_S_ALREADY_UNINSTALLED\r\n(The update to be removed is not installed on the system)">>,
    <<36, 8, "WU_S_ALREADY_DOWNLOADED\r\n(The update to be downloaded has already been downloaded)">>,
    <<36, 9, "WU_S_SOME_UPDATES_SKIPPED_ON_BATTERY\r\n(The operation completed successfully, but some updates were skipped because the system is running on batteries)">>,
    <<36, 10, "WU_S_ALREADY_REVERTED\r\n(The update to be reverted is not present on the system)">>,
    <<36, 16, "WU_S_SEARCH_CRITERIA_NOT_SUPPORTED\r\n(The operation is skipped because the update service does not support the requested search criteria)">>,
    <<36, 8213, "WU_S_UH_INSTALLSTILLPENDING\r\n(The installation operation for the update is still in progress)">>,
    <<36, 8214, "WU_S_UH_DOWNLOAD_SIZE_CALCULATED\r\n(The actual download size has been calculated by the handler)">>,
    <<36, 20481, "WU_S_SIH_NOOP\r\n(No operation was required by the server-initiated healing server response)">>,
    <<36, 24577, "WU_S_DM_ALREADYDOWNLOADING\r\n(The update to be downloaded is already being downloaded)">>,
    <<36, 28929, "WU_S_METADATA_SKIPPED_BY_ENFORCEMENTMODE\r\n(Metadata verification was skipped by enforcement mode)">>,
    <<36, 28930, "WU_S_METADATA_IGNORED_SIGNATURE_VERIFICATION\r\n(A server configuration refresh resulted in metadata signature verification to be ignored)">>,
    <<36, 32769, "WU_S_SEARCH_LOAD_SHEDDING\r\n(Search operation completed successfully but one or more services were shedding load)">>,
    <<36, 32770, "WU_S_AAD_DEVICE_TICKET_NOT_NEEDED\r\n(There was no need to retrieve an AAD device ticket)">>,
    <<32804, 1, "WU_E_NO_SERVICE\r\n(Windows Update Agent was unable to provide the service)">>,
    <<32804, 2, "WU_E_MAX_CAPACITY_REACHED\r\n(The maximum capacity of the service was exceeded)">>,
    <<32804, 3, "WU_E_UNKNOWN_ID\r\n(An ID cannot be found)">>,
    <<32804, 4, "WU_E_NOT_INITIALIZED\r\n(The object could not be initialized)">>,
    <<32804, 5, "WU_E_RANGEOVERLAP\r\n(The update handler requested a byte range overlapping a previously requested range)">>,
    <<32804, 6, "WU_E_TOOMANYRANGES\r\n(The requested number of byte ranges exceeds the maximum number (2^31 - 1))">>,
    <<32804, 7, "WU_E_INVALIDINDEX\r\n(The index to a collection was invalid)">>,
    <<32804, 8, "WU_E_ITEMNOTFOUND\r\n(The key for the item queried could not be found)">>,
    <<32804, 9, "WU_E_OPERATIONINPROGRESS\r\n(Another conflicting operation was in progress. Some operations such as installation cannot be performed twice simultaneously)">>,
    <<32804, 10, "WU_E_COULDNOTCANCEL\r\n(Cancellation of the operation was not allowed)">>,
    <<32804, 11, "WU_E_CALL_CANCELLED\r\n(Operation was cancelled)">>,
    <<32804, 12, "WU_E_NOOP\r\n(No operation was required)">>,
    <<32804, 13, "WU_E_XML_MISSINGDATA\r\n(Windows Update Agent could not find required information in the update's XML data)">>,
    <<32804, 14, "WU_E_XML_INVALID\r\n(Windows Update Agent found invalid information in the update's XML data)">>,
    <<32804, 15, "WU_E_CYCLE_DETECTED\r\n(Circular update relationships were detected in the metadata)">>,
    <<32804, 16, "WU_E_TOO_DEEP_RELATION\r\n(Update relationships too deep to evaluate were evaluated)">>,
    <<32804, 17, "WU_E_INVALID_RELATIONSHIP\r\n(An invalid update relationship was detected)">>,
    <<32804, 18, "WU_E_REG_VALUE_INVALID\r\n(An invalid registry value was read)">>,
    <<32804, 19, "WU_E_DUPLICATE_ITEM\r\n(Operation tried to add a duplicate item to a list)">>,
    <<32804, 20, "WU_E_INVALID_INSTALL_REQUESTED\r\n(Updates requested for install are not installable by caller)">>,
    <<32804, 22, "WU_E_INSTALL_NOT_ALLOWED\r\n(Operation tried to install while another installation was in progress or the system was pending a mandatory restart)">>,
    <<32804, 23, "WU_E_NOT_APPLICABLE\r\n(Operation was not performed because there are no applicable updates)">>,
    <<32804, 24, "WU_E_NO_USERTOKEN\r\n(Operation failed because a required user token is missing)">>,
    <<32804, 25, "WU_E_EXCLUSIVE_INSTALL_CONFLICT\r\n(An exclusive update cannot be installed with other updates at the same time)">>,
    <<32804, 26, "WU_E_POLICY_NOT_SET\r\n(A policy value was not set)">>,
    <<32804, 27, "WU_E_SELFUPDATE_IN_PROGRESS\r\n(The operation could not be performed because the Windows Update Agent is self-updating)">>,
    <<32804, 29, "WU_E_INVALID_UPDATE\r\n(An update contains invalid metadata)">>,
    <<32804, 30, "WU_E_SERVICE_STOP\r\n(Operation did not complete because the service or system was being shut down)">>,
    <<32804, 31, "WU_E_NO_CONNECTION\r\n(Operation did not complete because the network connection was unavailable)">>,
    <<32804, 32, "WU_E_NO_INTERACTIVE_USER\r\n(Operation did not complete because there is no logged-on interactive user)">>,
    <<32804, 33, "WU_E_TIME_OUT\r\n(Operation did not complete because it timed out)">>,
    <<32804, 34, "WU_E_ALL_UPDATES_FAILED\r\n(Operation failed for all the updates)">>,
    <<32804, 35, "WU_E_EULAS_DECLINED\r\n(The license terms for all updates were declined)">>,
    <<32804, 36, "WU_E_NO_UPDATE\r\n(There are no updates)">>,
    <<32804, 37, "WU_E_USER_ACCESS_DISABLED\r\n(Group Policy settings prevented access to Windows Update)">>,
    <<32804, 38, "WU_E_INVALID_UPDATE_TYPE\r\n(The type of update is invalid)">>,
    <<32804, 39, "WU_E_URL_TOO_LONG\r\n(The URL exceeded the maximum length)">>,
    <<32804, 40, "WU_E_UNINSTALL_NOT_ALLOWED\r\n(The update could not be uninstalled because the request did not originate from a WSUS server)">>,
    <<32804, 41, "WU_E_INVALID_PRODUCT_LICENSE\r\n(Search may have missed some updates before there is an unlicensed application on the system)">>,
    <<32804, 42, "WU_E_MISSING_HANDLER\r\n(A component required to detect applicable updates was missing)">>,
    <<32804, 43, "WU_E_LEGACYSERVER\r\n(An operation did not complete because it requires a newer version of server)">>,
    <<32804, 44, "WU_E_BIN_SOURCE_ABSENT\r\n(A delta-compressed update could not be installed because it required the source)">>,
    <<32804, 45, "WU_E_SOURCE_ABSENT\r\n(A full-file update could not be installed because it required the source)">>,
    <<32804, 46, "WU_E_WU_DISABLED\r\n(Access to an unmanaged server is not allowed)">>,
    <<32804, 47, "WU_E_CALL_CANCELLED_BY_POLICY\r\n(Operation did not complete because the DisableWindowsUpdateAccess policy was set)">>,
    <<32804, 48, "WU_E_INVALID_PROXY_SERVER\r\n(The format of the proxy list was invalid)">>,
    <<32804, 49, "WU_E_INVALID_FILE\r\n(The file is in the wrong format)">>,
    <<32804, 50, "WU_E_INVALID_CRITERIA\r\n(The search criteria string was invalid)">>,
    <<32804, 51, "WU_E_EULA_UNAVAILABLE\r\n(License terms could not be downloaded)">>,
    <<32804, 52, "WU_E_DOWNLOAD_FAILED\r\n(Update failed to download)">>,
    <<32804, 53, "WU_E_UPDATE_NOT_PROCESSED\r\n(The update was not processed)">>,
    <<32804, 54, "WU_E_INVALID_OPERATION\r\n(The object's current state did not allow the operation)">>,
    <<32804, 55, "WU_E_NOT_SUPPORTED\r\n(The functionality for the operation is not supported)">>,
    <<32804, 56, "WU_E_WINHTTP_INVALID_FILE\r\n(The downloaded file has an unexpected content type)">>,
    <<32804, 57, "WU_E_TOO_MANY_RESYNC\r\n(Agent is asked by server to resync too many times)">>,
    <<32804, 64, "WU_E_NO_SERVER_CORE_SUPPORT\r\n(WUA API method does not run on Server Core installation)">>,
    <<32804, 65, "WU_E_SYSPREP_IN_PROGRESS\r\n(Service is not available while sysprep is running)">>,
    <<32804, 66, "WU_E_UNKNOWN_SERVICE\r\n(The update service is no longer registered with AU)">>,
    <<32804, 67, "WU_E_NO_UI_SUPPORT\r\n(There is no support for WUA UI)">>,
    <<32804, 68, "WU_E_PER_MACHINE_UPDATE_ACCESS_DENIED\r\n(Only administrators can perform this operation on per-machine updates)">>,
    <<32804, 69, "WU_E_UNSUPPORTED_SEARCHSCOPE\r\n(A search was attempted with a scope that is not currently supported for this type of search)">>,
    <<32804, 70, "WU_E_BAD_FILE_URL\r\n(The URL does not point to a file)">>,
    <<32804, 71, "WU_E_REVERT_NOT_ALLOWED\r\n(The update could not be reverted)">>,
    <<32804, 72, "WU_E_INVALID_NOTIFICATION_INFO\r\n(The featured update notification info returned by the server is invalid)">>,
    <<32804, 73, "WU_E_OUTOFRANGE\r\n(The data is out of range)">>,
    <<32804, 74, "WU_E_SETUP_IN_PROGRESS\r\n(Windows Update agent operations are not available while OS setup is running)">>,
    <<32804, 75, "WU_E_ORPHANED_DOWNLOAD_JOB\r\n(An orphaned downloadjob was found with no active callers)">>,
    <<32804, 76, "WU_E_LOW_BATTERY\r\n(An update could not be installed because the system battery power level is too low)">>,
    <<32804, 77, "WU_E_INFRASTRUCTUREFILE_INVALID_FORMAT\r\n(The downloaded infrastructure file is incorrectly formatted)">>,
    <<32804, 78, "WU_E_INFRASTRUCTUREFILE_REQUIRES_SSL\r\n(The infrastructure file must be downloaded using strong SSL)">>,
    <<32804, 79, "WU_E_IDLESHUTDOWN_OPCOUNT_DISCOVERY\r\n(A discovery call contributed to a non-zero operation count at idle timer shutdown)">>,
    <<32804, 80, "WU_E_IDLESHUTDOWN_OPCOUNT_SEARCH\r\n(A search call contributed to a non-zero operation count at idle timer shutdown)">>,
    <<32804, 81, "WU_E_IDLESHUTDOWN_OPCOUNT_DOWNLOAD\r\n(A download call contributed to a non-zero operation count at idle timer shutdown)">>,
    <<32804, 82, "WU_E_IDLESHUTDOWN_OPCOUNT_INSTALL\r\n(An install call contributed to a non-zero operation count at idle timer shutdown)">>,
    <<32804, 83, "WU_E_IDLESHUTDOWN_OPCOUNT_OTHER\r\n(An unspecified call contributed to a non-zero operation count at idle timer shutdown)">>,
    <<32804, 84, "WU_E_INTERACTIVE_CALL_CANCELLED\r\n(An interactive user cancelled this operation, which was started from the Windows Update Agent UI)">>,
    <<32804, 85, "WU_E_AU_CALL_CANCELLED\r\n(Automatic Updates cancelled this operation because it applies to an update that is no longer applicable to this computer)">>,
    <<32804, 86, "WU_E_SYSTEM_UNSUPPORTED\r\n(This version or edition of the operating system doesn't support the needed functionality)">>,
    <<32804, 87, "WU_E_NO_SUCH_HANDLER_PLUGIN\r\n(The requested update download or install handler, or update applicability expression evaluator, is not provided by this Agent plugin)">>,
    <<32804, 88, "WU_E_INVALID_SERIALIZATION_VERSION\r\n(The requested serialization version is not supported)">>,
    <<32804, 89, "WU_E_NETWORK_COST_EXCEEDS_POLICY\r\n(The current network cost does not meet the conditions set by the network cost policy)">>,
    <<32804, 90, "WU_E_CALL_CANCELLED_BY_HIDE\r\n(The call is cancelled because it applies to an update that is hidden (no longer applicable to this computer))">>,
    <<32804, 91, "WU_E_CALL_CANCELLED_BY_INVALID\r\n(The call is cancelled because it applies to an update that is invalid (no longer applicable to this computer))">>,
    <<32804, 92, "WU_E_INVALID_VOLUMEID\r\n(The specified volume id is invalid)">>,
    <<32804, 93, "WU_E_UNRECOGNIZED_VOLUMEID\r\n(The specified volume id is unrecognized by the system)">>,
    <<32804, 94, "WU_E_EXTENDEDERROR_NOTSET\r\n(The installation extended error code is not specified)">>,
    <<32804, 95, "WU_E_EXTENDEDERROR_FAILED\r\n(The installation extended error code is set to general fail)">>,
    <<32804, 96, "WU_E_IDLESHUTDOWN_OPCOUNT_SERVICEREGISTRATION\r\n(A service registration call contributed to a non-zero operation count at idle timer shutdown)">>,
    <<32804, 97, "WU_E_FILETRUST_SHA2SIGNATURE_MISSING\r\n(Signature validation of the file fails to find valid SHA2+ signature on MS signed payload)">>,
    <<32804, 98, "WU_E_UPDATE_NOT_APPROVED\r\n(The update is not in the servicing approval list)">>,
    <<32804, 99, "WU_E_CALL_CANCELLED_BY_INTERACTIVE_SEARCH\r\n(The search call was cancelled by another interactive search against the same service)">>,
    <<32804, 100, "WU_E_INSTALL_JOB_RESUME_NOT_ALLOWED\r\n(Resume of install job not allowed due to another installation in progress)">>,
    <<32804, 101, "WU_E_INSTALL_JOB_NOT_SUSPENDED\r\n(Resume of install job not allowed because job is not suspended)">>,
    <<32804, 102, "WU_E_INSTALL_USERCONTEXT_ACCESSDENIED\r\n(User context passed to installation from caller with insufficient privileges)">>,
    <<32804, 103, "WU_E_STANDBY_ACTIVITY_NOT_ALLOWED\r\n(Operation is not allowed because the device is in DC (Direct Current) and DS (Disconnected Standby))">>,
    <<32804, 104, "WU_E_COULD_NOT_EVALUATE_PROPERTY\r\n(The property could not be evaluated)">>,
    <<32804, 4095, "WU_E_UNEXPECTED\r\n(An operation failed due to reasons not covered by another error code)">>,
    <<32804, 4097, "WU_E_MSI_WRONG_VERSION\r\n(Search may have missed some updates because the Windows Installer is less than version 3.1)">>,
    <<32804, 4098, "WU_E_MSI_NOT_CONFIGURED\r\n(Search may have missed some updates because the Windows Installer is not configured)">>,
    <<32804, 4099, "WU_E_MSP_DISABLED\r\n(Search may have missed some updates because policy has disabled Windows Installer patching)">>,
    <<32804, 4100, "WU_E_MSI_WRONG_APP_CONTEXT\r\n(An update could not be applied because the application is installed per-user)">>,
    <<32804, 4101, "WU_E_MSI_NOT_PRESENT\r\n(Search may have missed some updates because the Windows Installer is less than version 3.1)">>,
    <<32804, 8191, "WU_E_MSP_UNEXPECTED\r\n(Search may have missed some updates because there was a failure of the Windows Installer)">>,
    <<32804, 16384, "WU_E_PT_SOAPCLIENT_BASE\r\n(WU_E_PT_SOAPCLIENT_* error codes map to the SOAPCLIENT_ERROR enum of the ATL Server Library)">>,
    <<32804, 16385, "WU_E_PT_SOAPCLIENT_INITIALIZE\r\n(Same as SOAPCLIENT_INITIALIZE_ERROR - initialization of the SOAP client failed, possibly because of an MSXML installation failure)">>,
    <<32804, 16386, "WU_E_PT_SOAPCLIENT_OUTOFMEMORY\r\n(Same as SOAPCLIENT_OUTOFMEMORY - SOAP client failed because it ran out of memory)">>,
    <<32804, 16387, "WU_E_PT_SOAPCLIENT_GENERATE\r\n(Same as SOAPCLIENT_GENERATE_ERROR - SOAP client failed to generate the request)">>,
    <<32804, 16388, "WU_E_PT_SOAPCLIENT_CONNECT\r\n(Same as SOAPCLIENT_CONNECT_ERROR - SOAP client failed to connect to the server)">>,
    <<32804, 16389, "WU_E_PT_SOAPCLIENT_SEND\r\n(Same as SOAPCLIENT_SEND_ERROR - SOAP client failed to send a message for reasons of WU_E_WINHTTP_* error codes)">>,
    <<32804, 16390, "WU_E_PT_SOAPCLIENT_SERVER\r\n(Same as SOAPCLIENT_SERVER_ERROR - SOAP client failed because there was a server error)">>,
    <<32804, 16391, "WU_E_PT_SOAPCLIENT_SOAPFAULT\r\n(Same as SOAPCLIENT_SOAPFAULT - SOAP client failed because there was a SOAP fault for reasons of WU_E_PT_SOAP_* error codes)">>,
    <<32804, 16392, "WU_E_PT_SOAPCLIENT_PARSEFAULT\r\n(Same as SOAPCLIENT_PARSEFAULT_ERROR - SOAP client failed to parse a SOAP fault)">>,
    <<32804, 16393, "WU_E_PT_SOAPCLIENT_READ\r\n(Same as SOAPCLIENT_READ_ERROR - SOAP client failed while reading the response from the server)">>,
    <<32804, 16394, "WU_E_PT_SOAPCLIENT_PARSE\r\n(Same as SOAPCLIENT_PARSE_ERROR - SOAP client failed to parse the response from the server)">>,
    <<32804, 16395, "WU_E_PT_SOAP_VERSION\r\n(Same as SOAP_E_VERSION_MISMATCH - SOAP client found an unrecognizable namespace for the SOAP envelope)">>,
    <<32804, 16396, "WU_E_PT_SOAP_MUST_UNDERSTAND\r\n(Same as SOAP_E_MUST_UNDERSTAND - SOAP client was unable to understand a header)">>,
    <<32804, 16397, "WU_E_PT_SOAP_CLIENT\r\n(Same as SOAP_E_CLIENT - SOAP client found the message was malformed; fix before resending)">>,
    <<32804, 16398, "WU_E_PT_SOAP_SERVER\r\n(Same as SOAP_E_SERVER - The SOAP message could not be processed due to a server error; resend later)">>,
    <<32804, 16399, "WU_E_PT_WMI_ERROR\r\n(There was an unspecified Windows Management Instrumentation (WMI) error)">>,
    <<32804, 16400, "WU_E_PT_EXCEEDED_MAX_SERVER_TRIPS\r\n(The number of round trips to the server exceeded the maximum limit)">>,
    <<32804, 16401, "WU_E_PT_SUS_SERVER_NOT_SET\r\n(WUServer policy value is missing in the registry)">>,
    <<32804, 16402, "WU_E_PT_DOUBLE_INITIALIZATION\r\n(Initialization failed because the object was already initialized)">>,
    <<32804, 16403, "WU_E_PT_INVALID_COMPUTER_NAME\r\n(The computer name could not be determined)">>,
    <<32804, 16405, "WU_E_PT_REFRESH_CACHE_REQUIRED\r\n(The reply from the server indicates that the server was changed or the cookie was invalid; refresh the state of the internal cache and retry)">>,
    <<32804, 16406, "WU_E_PT_HTTP_STATUS_BAD_REQUEST\r\n(Same as HTTP status 400 - the server could not process the request due to invalid syntax)">>,
    <<32804, 16407, "WU_E_PT_HTTP_STATUS_DENIED\r\n(Same as HTTP status 401 - the requested resource requires user authentication)">>,
    <<32804, 16408, "WU_E_PT_HTTP_STATUS_FORBIDDEN\r\n(Same as HTTP status 403 - server understood the request, but declined to fulfill it)">>,
    <<32804, 16409, "WU_E_PT_HTTP_STATUS_NOT_FOUND\r\n(Same as HTTP status 404 - the server cannot find the requested URI (Uniform Resource Identifier))">>,
    <<32804, 16410, "WU_E_PT_HTTP_STATUS_BAD_METHOD\r\n(Same as HTTP status 405 - the HTTP method is not allowed)">>,
    <<32804, 16411, "WU_E_PT_HTTP_STATUS_PROXY_AUTH_REQ\r\n(Same as HTTP status 407 - proxy authentication is required)">>,
    <<32804, 16412, "WU_E_PT_HTTP_STATUS_REQUEST_TIMEOUT\r\n(Same as HTTP status 408 - the server timed out waiting for the request)">>,
    <<32804, 16413, "WU_E_PT_HTTP_STATUS_CONFLICT\r\n(Same as HTTP status 409 - the request was not completed due to a conflict with the current state of the resource)">>,
    <<32804, 16414, "WU_E_PT_HTTP_STATUS_GONE\r\n(Same as HTTP status 410 - requested resource is no longer available at the server)">>,
    <<32804, 16415, "WU_E_PT_HTTP_STATUS_SERVER_ERROR\r\n(Same as HTTP status 500 - an error internal to the server prevented fulfilling the request)">>,
    <<32804, 16416, "WU_E_PT_HTTP_STATUS_NOT_SUPPORTED\r\n(Same as HTTP status 500 - server does not support the functionality required to fulfill the request)">>,
    <<32804, 16417, "WU_E_PT_HTTP_STATUS_BAD_GATEWAY\r\n(Same as HTTP status 502 - the server, while acting as a gateway or proxy, received an invalid response from the upstream server it accessed in attempting to fulfill the request)">>,
    <<32804, 16418, "WU_E_PT_HTTP_STATUS_SERVICE_UNAVAIL\r\n(Same as HTTP status 503 - the service is temporarily overloaded)">>,
    <<32804, 16419, "WU_E_PT_HTTP_STATUS_GATEWAY_TIMEOUT\r\n(Same as HTTP status 503 - the request was timed out waiting for a gateway)">>,
    <<32804, 16420, "WU_E_PT_HTTP_STATUS_VERSION_NOT_SUP\r\n(Same as HTTP status 505 - the server does not support the HTTP protocol version used for the request)">>,
    <<32804, 16421, "WU_E_PT_FILE_LOCATIONS_CHANGED\r\n(Operation failed due to a changed file location; refresh internal state and resend)">>,
    <<32804, 16422, "WU_E_PT_REGISTRATION_NOT_SUPPORTED\r\n(Operation failed because Windows Update Agent does not support registration with a non-WSUS server)">>,
    <<32804, 16423, "WU_E_PT_NO_AUTH_PLUGINS_REQUESTED\r\n(The server returned an empty authentication information list)">>,
    <<32804, 16424, "WU_E_PT_NO_AUTH_COOKIES_CREATED\r\n(Windows Update Agent was unable to create any valid authentication cookies)">>,
    <<32804, 16425, "WU_E_PT_INVALID_CONFIG_PROP\r\n(A configuration property value was wrong)">>,
    <<32804, 16426, "WU_E_PT_CONFIG_PROP_MISSING\r\n(A configuration property value was missing)">>,
    <<32804, 16427, "WU_E_PT_HTTP_STATUS_NOT_MAPPED\r\n(The HTTP request could not be completed and the reason did not correspond to any of the WU_E_PT_HTTP_* error codes)">>,
    <<32804, 16428, "WU_E_PT_WINHTTP_NAME_NOT_RESOLVED\r\n(Same as ERROR_WINHTTP_NAME_NOT_RESOLVED - the proxy server or target server name cannot be resolved)">>,
    <<32804, 16429, "WU_E_PT_LOAD_SHEDDING\r\n(The server is shedding load)">>,
    <<32804, 16430, "WU_E_PT_CLIENT_ENFORCED_LOAD_SHEDDING\r\n(Windows Update Agent is enforcing honoring the service load shedding interval)">>,
    <<32804, 20525, "WU_E_PT_SAME_REDIR_ID\r\n(Windows Update Agent failed to download a redirector cabinet file with a new redirectorId value from the server during the recovery)">>,
    <<32804, 20526, "WU_E_PT_NO_MANAGED_RECOVER\r\n(A redirector recovery action did not complete because the server is managed)">>,
    <<32804, 16431, "WU_E_PT_ECP_SUCCEEDED_WITH_ERRORS\r\n(External cab file processing completed with some errors)">>,
    <<32804, 16432, "WU_E_PT_ECP_INIT_FAILED\r\n(The external cab processor initialization did not complete)">>,
    <<32804, 16433, "WU_E_PT_ECP_INVALID_FILE_FORMAT\r\n(The format of a metadata file was invalid)">>,
    <<32804, 16434, "WU_E_PT_ECP_INVALID_METADATA\r\n(External cab processor found invalid metadata)">>,
    <<32804, 16435, "WU_E_PT_ECP_FAILURE_TO_EXTRACT_DIGEST\r\n(The file digest could not be extracted from an external cab file)">>,
    <<32804, 16436, "WU_E_PT_ECP_FAILURE_TO_DECOMPRESS_CAB_FILE\r\n(An external cab file could not be decompressed)">>,
    <<32804, 16437, "WU_E_PT_ECP_FILE_LOCATION_ERROR\r\n(External cab processor was unable to get file locations)">>,
    <<32804, 1078, "WU_E_PT_CATALOG_SYNC_REQUIRED\r\n(The server does not support category-specific search; Full catalog search has to be issued instead)">>,
    <<32804, 1079, "WU_E_PT_SECURITY_VERIFICATION_FAILURE\r\n(There was a problem authorizing with the service)">>,
    <<32804, 1080, "WU_E_PT_ENDPOINT_UNREACHABLE\r\n(There is no route or network connectivity to the endpoint)">>,
    <<32804, 1081, "WU_E_PT_INVALID_FORMAT\r\n(The data received does not meet the data contract expectations)">>,
    <<32804, 1082, "WU_E_PT_INVALID_URL\r\n(The url is invalid)">>,
    <<32804, 1083, "WU_E_PT_NWS_NOT_LOADED\r\n(Unable to load NWS runtime)">>,
    <<32804, 1084, "WU_E_PT_PROXY_AUTH_SCHEME_NOT_SUPPORTED\r\n(The proxy auth scheme is not supported)">>,
    <<32804, 1085, "WU_E_SERVICEPROP_NOTAVAIL\r\n(The requested service property is not available)">>,
    <<32804, 1086, "WU_E_PT_ENDPOINT_REFRESH_REQUIRED\r\n(The endpoint provider plugin requires online refresh)">>,
    <<32804, 1087, "WU_E_PT_ENDPOINTURL_NOTAVAIL\r\n(A URL for the requested service endpoint is not available)">>,
    <<32804, 1088, "WU_E_PT_ENDPOINT_DISCONNECTED\r\n(The connection to the service endpoint died)">>,
    <<32804, 1089, "WU_E_PT_INVALID_OPERATION\r\n(The operation is invalid because protocol talker is in an inappropriate state)">>,
    <<32804, 1090, "WU_E_PT_OBJECT_FAULTED\r\n(The object is in a faulted state due to a previous error)">>,
    <<32804, 1091, "WU_E_PT_NUMERIC_OVERFLOW\r\n(The operation would lead to numeric overflow)">>,
    <<32804, 1092, "WU_E_PT_OPERATION_ABORTED\r\n(The operation was aborted)">>,
    <<32804, 1093, "WU_E_PT_OPERATION_ABANDONED\r\n(The operation was abandoned)">>,
    <<32804, 1094, "WU_E_PT_QUOTA_EXCEEDED\r\n(A quota was exceeded)">>,
    <<32804, 1095, "WU_E_PT_NO_TRANSLATION_AVAILABLE\r\n(The information was not available in the specified language)">>,
    <<32804, 1096, "WU_E_PT_ADDRESS_IN_USE\r\n(The address is already being used)">>,
    <<32804, 1097, "WU_E_PT_ADDRESS_NOT_AVAILABLE\r\n(The address is not valid for this context)">>,
    <<32804, 1098, "WU_E_PT_OTHER\r\n(Unrecognized error occurred in the Windows Web Services framework)">>,
    <<32804, 1099, "WU_E_PT_SECURITY_SYSTEM_FAILURE\r\n(A security operation failed in the Windows Web Services framework)">>,
    <<32804, 16640, "WU_E_PT_DATA_BOUNDARY_RESTRICTED\r\n(The client is data boundary restricted and needs to talk to a restricted endpoint)">>,
    <<32804, 16641, "WU_E_PT_GENERAL_AAD_CLIENT_ERROR\r\n(The client hit an error in retrieving AAD device ticket)">>,
    <<32804, 20479, "WU_E_PT_UNEXPECTED\r\n(A communication error not covered by another WU_E_PT_* error code)">>,
    <<32804, 20481, "WU_E_REDIRECTOR_LOAD_XML\r\n(The redirector XML document could not be loaded into the DOM class)">>,
    <<32804, 20482, "WU_E_REDIRECTOR_S_FALSE\r\n(The redirector XML document is missing some required information)">>,
    <<32804, 20483, "WU_E_REDIRECTOR_ID_SMALLER\r\n(The redirectorId in the downloaded redirector cab is less than in the cached cab)">>,
    <<32804, 20484, "WU_E_REDIRECTOR_UNKNOWN_SERVICE\r\n(The service ID is not supported in the service environment)">>,
    <<32804, 20485, "WU_E_REDIRECTOR_UNSUPPORTED_CONTENTTYPE\r\n(The response from the redirector server had an unsupported content type)">>,
    <<32804, 20486, "WU_E_REDIRECTOR_INVALID_RESPONSE\r\n(The response from the redirector server had an error status or was invalid)">>,
    <<32804, 20488, "WU_E_REDIRECTOR_ATTRPROVIDER_EXCEEDED_MAX_NAMEVALUE\r\n(The maximum number of name value pairs was exceeded by the attribute provider)">>,
    <<32804, 20489, "WU_E_REDIRECTOR_ATTRPROVIDER_INVALID_NAME\r\n(The name received from the attribute provider was invalid)">>,
    <<32804, 20490, "WU_E_REDIRECTOR_ATTRPROVIDER_INVALID_VALUE\r\n(The value received from the attribute provider was invalid)">>,
    <<32804, 20491, "WU_E_REDIRECTOR_SLS_GENERIC_ERROR\r\n(There was an error in connecting to or parsing the response from the Service Locator Service redirector server)">>,
    <<32804, 20492, "WU_E_REDIRECTOR_CONNECT_POLICY\r\n(Connections to the redirector server are disallowed by managed policy)">>,
    <<32804, 20493, "WU_E_REDIRECTOR_ONLINE_DISALLOWED\r\n(The redirector would go online but is disallowed by caller configuration)">>,
    <<32804, 20735, "WU_E_REDIRECTOR_UNEXPECTED\r\n(The redirector failed for reasons not covered by another WU_E_REDIRECTOR_* error code)">>,
    <<32804, 20737, "WU_E_SIH_VERIFY_DOWNLOAD_ENGINE\r\n(Verification of the servicing engine package failed)">>,
    <<32804, 20738, "WU_E_SIH_VERIFY_DOWNLOAD_PAYLOAD\r\n(Verification of a servicing package failed)">>,
    <<32804, 20739, "WU_E_SIH_VERIFY_STAGE_ENGINE\r\n(Verification of the staged engine failed)">>,
    <<32804, 20740, "WU_E_SIH_VERIFY_STAGE_PAYLOAD\r\n(Verification of a staged payload failed)">>,
    <<32804, 20741, "WU_E_SIH_ACTION_NOT_FOUND\r\n(An internal error occurred where the servicing action was not found)">>,
    <<32804, 20742, "WU_E_SIH_SLS_PARSE\r\n(There was a parse error in the service environment response)">>,
    <<32804, 20743, "WU_E_SIH_INVALIDHASH\r\n(A downloaded file failed an integrity check)">>,
    <<32804, 20744, "WU_E_SIH_NO_ENGINE\r\n(No engine was provided by the server-initiated healing server response)">>,
    <<32804, 20745, "WU_E_SIH_POST_REBOOT_INSTALL_FAILED\r\n(Post-reboot install failed)">>,
    <<32804, 20746, "WU_E_SIH_POST_REBOOT_NO_CACHED_SLS_RESPONSE\r\n(There were pending reboot actions, but cached SLS response was not found post-reboot)">>,
    <<32804, 20747, "WU_E_SIH_PARSE\r\n(Parsing command line arguments failed)">>,
    <<32804, 20748, "WU_E_SIH_SECURITY\r\n(Security check failed)">>,
    <<32804, 20749, "WU_E_SIH_PPL\r\n(PPL check failed)">>,
    <<32804, 20750, "WU_E_SIH_POLICY\r\n(Execution was disabled by policy)">>,
    <<32804, 20751, "WU_E_SIH_STDEXCEPTION\r\n(A standard exception was caught)">>,
    <<32804, 20752, "WU_E_SIH_NONSTDEXCEPTION\r\n(A non-standard exception was caught)">>,
    <<32804, 20753, "WU_E_SIH_ENGINE_EXCEPTION\r\n(The server-initiated healing engine encountered an exception not covered by another WU_E_SIH_* error code)">>,
    <<32804, 20754, "WU_E_SIH_BLOCKED_FOR_PLATFORM\r\n(You are running SIH Client with cmd not supported on your platform)">>,
    <<32804, 20755, "WU_E_SIH_ANOTHER_INSTANCE_RUNNING\r\n(Another SIH Client is already running)">>,
    <<32804, 20756, "WU_E_SIH_DNSRESILIENCY_OFF\r\n(Disable DNS resiliency feature per service configuration)">>,
    <<32804, 20991, "WU_E_SIH_UNEXPECTED\r\n(There was a failure for reasons not covered by another WU_E_SIH_* error code)">>,
    <<32804, 49153, "WU_E_DRV_PRUNED\r\n(A driver was skipped)">>,
    <<32804, 49154, "WU_E_DRV_NOPROP_OR_LEGACY\r\n(A property for the driver could not be found. It may not conform with required specifications)">>,
    <<32804, 49155, "WU_E_DRV_REG_MISMATCH\r\n(The registry type read for the driver does not match the expected type)">>,
    <<32804, 49156, "WU_E_DRV_NO_METADATA\r\n(The driver update is missing metadata)">>,
    <<32804, 49157, "WU_E_DRV_MISSING_ATTRIBUTE\r\n(The driver update is missing a required attribute)">>,
    <<32804, 49158, "WU_E_DRV_SYNC_FAILED\r\n(Driver synchronization failed)">>,
    <<32804, 49159, "WU_E_DRV_NO_PRINTER_CONTENT\r\n(Information required for the synchronization of applicable printers is missing)">>,
    <<32804, 49160, "WU_E_DRV_DEVICE_PROBLEM\r\n(After installing a driver update, the updated device has reported a problem)">>,
    <<32804, 53247, "WU_E_DRV_UNEXPECTED\r\n(A driver error not covered by another WU_E_DRV_* code)">>,
    <<32804, 32768, "WU_E_DS_SHUTDOWN\r\n(An operation failed because Windows Update Agent is shutting down)">>,
    <<32804, 32769, "WU_E_DS_INUSE\r\n(An operation failed because the data store was in use)">>,
    <<32804, 32770, "WU_E_DS_INVALID\r\n(The current and expected states of the data store do not match)">>,
    <<32804, 32771, "WU_E_DS_TABLEMISSING\r\n(The data store is missing a table)">>,
    <<32804, 32772, "WU_E_DS_TABLEINCORRECT\r\n(The data store contains a table with unexpected columns)">>,
    <<32804, 32773, "WU_E_DS_INVALIDTABLENAME\r\n(A table could not be opened because the table is not in the data store)">>,
    <<32804, 32774, "WU_E_DS_BADVERSION\r\n(The current and expected versions of the data store do not match)">>,
    <<32804, 32775, "WU_E_DS_NODATA\r\n(The information requested is not in the data store)">>,
    <<32804, 32776, "WU_E_DS_MISSINGDATA\r\n(The data store is missing required information or has a NULL in a table column that requires a non-null value)">>,
    <<32804, 32777, "WU_E_DS_MISSINGREF\r\n(The data store is missing required information or has a reference to missing license terms, file, localized property or linked row)">>,
    <<32804, 32778, "WU_E_DS_UNKNOWNHANDLER\r\n(The update was not processed because its update handler could not be recognized)">>,
    <<32804, 32779, "WU_E_DS_CANTDELETE\r\n(The update was not deleted because it is still referenced by one or more services)">>,
    <<32804, 32780, "WU_E_DS_LOCKTIMEOUTEXPIRED\r\n(The data store section could not be locked within the allotted time)">>,
    <<32804, 32781, "WU_E_DS_NOCATEGORIES\r\n(The category was not added because it contains no parent categories and is not a top-level category itself)">>,
    <<32804, 32782, "WU_E_DS_ROWEXISTS\r\n(The row was not added because an existing row has the same primary key)">>,
    <<32804, 32783, "WU_E_DS_STOREFILELOCKED\r\n(The data store could not be initialized because it was locked by another process)">>,
    <<32804, 32784, "WU_E_DS_CANNOTREGISTER\r\n(The data store is not allowed to be registered with COM in the current process)">>,
    <<32804, 32785, "WU_E_DS_UNABLETOSTART\r\n(Could not create a data store object in another process)">>,
    <<32804, 32787, "WU_E_DS_DUPLICATEUPDATEID\r\n(The server sent the same update to the client with two different revision IDs)">>,
    <<32804, 32788, "WU_E_DS_UNKNOWNSERVICE\r\n(An operation did not complete because the service is not in the data store)">>,
    <<32804, 32789, "WU_E_DS_SERVICEEXPIRED\r\n(An operation did not complete because the registration of the service has expired)">>,
    <<32804, 32790, "WU_E_DS_DECLINENOTALLOWED\r\n(A request to hide an update was declined because it is a mandatory update or because it was deployed with a deadline)">>,
    <<32804, 32791, "WU_E_DS_TABLESESSIONMISMATCH\r\n(A table was not closed because it is not associated with the session)">>,
    <<32804, 32792, "WU_E_DS_SESSIONLOCKMISMATCH\r\n(A table was not closed because it is not associated with the session)">>,
    <<32804, 32793, "WU_E_DS_NEEDWINDOWSSERVICE\r\n(A request to remove the Windows Update service or to unregister it with Automatic Updates was declined because it is a built-in service and/or Automatic Updates cannot fall back to another service)">>,
    <<32804, 32794, "WU_E_DS_INVALIDOPERATION\r\n(A request was declined because the operation is not allowed)">>,
    <<32804, 32795, "WU_E_DS_SCHEMAMISMATCH\r\n(The schema of the current data store and the schema of a table in a backup XML document do not match)">>,
    <<32804, 32796, "WU_E_DS_RESETREQUIRED\r\n(The data store requires a session reset; release the session and retry with a new session)">>,
    <<32804, 32797, "WU_E_DS_IMPERSONATED\r\n(A data store operation did not complete because it was requested with an impersonated identity)">>,
    <<32804, 32798, "WU_E_DS_DATANOTAVAILABLE\r\n(An operation against update metadata did not complete because the data was never received from server)">>,
    <<32804, 32799, "WU_E_DS_DATANOTLOADED\r\n(An operation against update metadata did not complete because the data was available but not loaded from datastore)">>,
    <<32804, 32800, "WU_E_DS_NODATA_NOSUCHREVISION\r\n(A data store operation did not complete because no such update revision is known)">>,
    <<32804, 32801, "WU_E_DS_NODATA_NOSUCHUPDATE\r\n(A data store operation did not complete because no such update is known)">>,
    <<32804, 32802, "WU_E_DS_NODATA_EULA\r\n(A data store operation did not complete because an update's EULA information is missing)">>,
    <<32804, 32803, "WU_E_DS_NODATA_SERVICE\r\n(A data store operation did not complete because a service's information is missing)">>,
    <<32804, 32804, "WU_E_DS_NODATA_COOKIE\r\n(A data store operation did not complete because a service's synchronization information is missing)">>,
    <<32804, 32805, "WU_E_DS_NODATA_TIMER\r\n(A data store operation did not complete because a timer's information is missing)">>,
    <<32804, 32806, "WU_E_DS_NODATA_CCR\r\n(A data store operation did not complete because a download's information is missing)">>,
    <<32804, 32807, "WU_E_DS_NODATA_FILE\r\n(A data store operation did not complete because a file's information is missing)">>,
    <<32804, 32808, "WU_E_DS_NODATA_DOWNLOADJOB\r\n(A data store operation did not complete because a download job's information is missing)">>,
    <<32804, 32809, "WU_E_DS_NODATA_TMI\r\n(A data store operation did not complete because a service's timestamp information is missing)">>,
    <<32804, 36863, "WU_E_DS_UNEXPECTED\r\n(A data store error not covered by another WU_E_DS_* code)">>,
    <<32804, 36865, "WU_E_INVENTORY_PARSEFAILED\r\n(Parsing of the rule file failed)">>,
    <<32804, 36866, "WU_E_INVENTORY_GET_INVENTORY_TYPE_FAILED\r\n(Failed to get the requested inventory type from the server)">>,
    <<32804, 36867, "WU_E_INVENTORY_RESULT_UPLOAD_FAILED\r\n(Failed to upload inventory result to the server)">>,
    <<32804, 36868, "WU_E_INVENTORY_UNEXPECTED\r\n(There was an inventory error not covered by another error code)">>,
    <<32804, 36869, "WU_E_INVENTORY_WMI_ERROR\r\n(A WMI error occurred when enumerating the instances for a particular class)">>,
    <<32804, 40960, "WU_E_AU_NOSERVICE\r\n(Automatic Updates was unable to service incoming requests)">>,
    <<32804, 40962, "WU_E_AU_NONLEGACYSERVER\r\n(The old version of the Automatic Updates client has stopped because the WSUS server has been upgraded)">>,
    <<32804, 40963, "WU_E_AU_LEGACYCLIENTDISABLED\r\n(The old version of the Automatic Updates client was disabled)">>,
    <<32804, 40964, "WU_E_AU_PAUSED\r\n(Automatic Updates was unable to process incoming requests because it was paused)">>,
    <<32804, 40965, "WU_E_AU_NO_REGISTERED_SERVICE\r\n(No unmanaged service is registered with AU)">>,
    <<32804, 40966, "WU_E_AU_DETECT_SVCID_MISMATCH\r\n(The default service registered with AU changed during the search)">>,
    <<32804, 40967, "WU_E_REBOOT_IN_PROGRESS\r\n(A reboot is in progress)">>,
    <<32804, 40968, "WU_E_AU_OOBE_IN_PROGRESS\r\n(Automatic Updates can't process incoming requests while Windows Welcome is running)">>,
    <<32804, 45055, "WU_E_AU_UNEXPECTED\r\n(An Automatic Updates error not covered by another WU_E_AU * code)">>,
    <<32804, 8192, "WU_E_UH_REMOTEUNAVAILABLE\r\n(A request for a remote update handler could not be completed because no remote process is available)">>,
    <<32804, 8193, "WU_E_UH_LOCALONLY\r\n(A request for a remote update handler could not be completed because the handler is local only)">>,
    <<32804, 8194, "WU_E_UH_UNKNOWNHANDLER\r\n(A request for an update handler could not be completed because the handler could not be recognized)">>,
    <<32804, 8195, "WU_E_UH_REMOTEALREADYACTIVE\r\n(A remote update handler could not be created because one already exists)">>,
    <<32804, 8196, "WU_E_UH_DOESNOTSUPPORTACTION\r\n(A request for the handler to install (uninstall) an update could not be completed because the update does not support install (uninstall))">>,
    <<32804, 8197, "WU_E_UH_WRONGHANDLER\r\n(An operation did not complete because the wrong handler was specified)">>,
    <<32804, 8198, "WU_E_UH_INVALIDMETADATA\r\n(A handler operation could not be completed because the update contains invalid metadata)">>,
    <<32804, 8199, "WU_E_UH_INSTALLERHUNG\r\n(An operation could not be completed because the installer exceeded the time limit)">>,
    <<32804, 8200, "WU_E_UH_OPERATIONCANCELLED\r\n(An operation being done by the update handler was cancelled)">>,
    <<32804, 8201, "WU_E_UH_BADHANDLERXML\r\n(An operation could not be completed because the handler-specific metadata is invalid)">>,
    <<32804, 8202, "WU_E_UH_CANREQUIREINPUT\r\n(A request to the handler to install an update could not be completed because the update requires user input)">>,
    <<32804, 8203, "WU_E_UH_INSTALLERFAILURE\r\n(The installer failed to install (uninstall) one or more updates)">>,
    <<32804, 8204, "WU_E_UH_FALLBACKTOSELFCONTAINED\r\n(The update handler should download self-contained content rather than delta-compressed content for the update)">>,
    <<32804, 8205, "WU_E_UH_NEEDANOTHERDOWNLOAD\r\n(The update handler did not install the update because it needs to be downloaded again)">>,
    <<32804, 8206, "WU_E_UH_NOTIFYFAILURE\r\n(The update handler failed to send notification of the status of the install (uninstall) operation)">>,
    <<32804, 8207, "WU_E_UH_INCONSISTENT_FILE_NAMES\r\n(The file names contained in the update metadata and in the update package are inconsistent)">>,
    <<32804, 8208, "WU_E_UH_FALLBACKERROR\r\n(The update handler failed to fall back to the self-contained content)">>,
    <<32804, 8209, "WU_E_UH_TOOMANYDOWNLOADREQUESTS\r\n(The update handler has exceeded the maximum number of download requests)">>,
    <<32804, 8210, "WU_E_UH_UNEXPECTEDCBSRESPONSE\r\n(The update handler has received an unexpected response from CBS)">>,
    <<32804, 8211, "WU_E_UH_BADCBSPACKAGEID\r\n(The update metadata contains an invalid CBS package identifier)">>,
    <<32804, 8212, "WU_E_UH_POSTREBOOTSTILLPENDING\r\n(The post-reboot operation for the update is still in progress)">>,
    <<32804, 8213, "WU_E_UH_POSTREBOOTRESULTUNKNOWN\r\n(The result of the post-reboot operation for the update could not be determined)">>,
    <<32804, 8214, "WU_E_UH_POSTREBOOTUNEXPECTEDSTATE\r\n(The state of the update after its post-reboot operation has completed is unexpected)">>,
    <<32804, 8215, "WU_E_UH_NEW_SERVICING_STACK_REQUIRED\r\n(The OS servicing stack must be updated before this update is downloaded or installed)">>,
    <<32804, 8216, "WU_E_UH_CALLED_BACK_FAILURE\r\n(A callback installer called back with an error)">>,
    <<32804, 8217, "WU_E_UH_CUSTOMINSTALLER_INVALID_SIGNATURE\r\n(The custom installer signature did not match the signature required by the update)">>,
    <<32804, 8218, "WU_E_UH_UNSUPPORTED_INSTALLCONTEXT\r\n(The installer does not support the installation configuration)">>,
    <<32804, 8219, "WU_E_UH_INVALID_TARGETSESSION\r\n(The targeted session for install is invalid)">>,
    <<32804, 8220, "WU_E_UH_DECRYPTFAILURE\r\n(The handler failed to decrypt the update files)">>,
    <<32804, 8221, "WU_E_UH_HANDLER_DISABLEDUNTILREBOOT\r\n(The update handler is disabled until the system reboots)">>,
    <<32804, 8222, "WU_E_UH_APPX_NOT_PRESENT\r\n(The AppX infrastructure is not present on the system)">>,
    <<32804, 8223, "WU_E_UH_NOTREADYTOCOMMIT\r\n(The update cannot be committed because it has not been previously installed or staged)">>,
    <<32804, 8224, "WU_E_UH_APPX_INVALID_PACKAGE_VOLUME\r\n(The specified volume is not a valid AppX package volume)">>,
    <<32804, 8225, "WU_E_UH_APPX_DEFAULT_PACKAGE_VOLUME_UNAVAILABLE\r\n(The configured default storage volume is unavailable)">>,
    <<32804, 8226, "WU_E_UH_APPX_INSTALLED_PACKAGE_VOLUME_UNAVAILABLE\r\n(The volume on which the application is installed is unavailable)">>,
    <<32804, 8227, "WU_E_UH_APPX_PACKAGE_FAMILY_NOT_FOUND\r\n(The specified package family is not present on the system)">>,
    <<32804, 8228, "WU_E_UH_APPX_SYSTEM_VOLUME_NOT_FOUND\r\n(Unable to find a package volume marked as system)">>,
    <<32804, 8229, "WU_E_UH_UA_SESSION_INFO_VERSION_NOT_SUPPORTED\r\n(UA does not support the version of OptionalSessionInfo)">>,
    <<32804, 8230, "WU_E_UH_RESERVICING_REQUIRED_BASELINE\r\n(This operation cannot be completed. You must install the baseline update(s) before you can install this update)">>,
    <<32804, 12287, "WU_E_UH_UNEXPECTED\r\n(An update handler error not covered by another WU_E_UH_* code)">>,
    <<32804, 24577, "WU_E_DM_URLNOTAVAILABLE\r\n(A download manager operation could not be completed because the requested file does not have a URL)">>,
    <<32804, 24578, "WU_E_DM_INCORRECTFILEHASH\r\n(A download manager operation could not be completed because the file digest was not recognized)">>,
    <<32804, 24579, "WU_E_DM_UNKNOWNALGORITHM\r\n(A download manager operation could not be completed because the file metadata requested an unrecognized hash algorithm)">>,
    <<32804, 24580, "WU_E_DM_NEEDDOWNLOADREQUEST\r\n(An operation could not be completed because a download request is required from the download handler)">>,
    <<32804, 24581, "WU_E_DM_NONETWORK\r\n(A download manager operation could not be completed because the network connection was unavailable)">>,
    <<32804, 24582, "WU_E_DM_WRONGBITSVERSION\r\n(A download manager operation could not be completed because the version of Background Intelligent Transfer Service (BITS) is incompatible)">>,
    <<32804, 24583, "WU_E_DM_NOTDOWNLOADED\r\n(The update has not been downloaded)">>,
    <<32804, 24584, "WU_E_DM_FAILTOCONNECTTOBITS\r\n(A download manager operation failed because the download manager was unable to connect the Background Intelligent Transfer Service (BITS))">>,
    <<32804, 24585, "WU_E_DM_BITSTRANSFERERROR\r\n(A download manager operation failed because there was an unspecified Background Intelligent Transfer Service (BITS) transfer error)">>,
    <<32804, 24586, "WU_E_DM_DOWNLOADLOCATIONCHANGED\r\n(A download must be restarted because the location of the source of the download has changed)">>,
    <<32804, 24587, "WU_E_DM_CONTENTCHANGED\r\n(A download must be restarted because the update content changed in a new revision)">>,
    <<32804, 24588, "WU_E_DM_DOWNLOADLIMITEDBYUPDATESIZE\r\n(A download failed because the current network limits downloads by update size for the update service)">>,
    <<32804, 24590, "WU_E_DM_UNAUTHORIZED\r\n(The download failed because the client was denied authorization to download the content)">>,
    <<32804, 24591, "WU_E_DM_BG_ERROR_TOKEN_REQUIRED\r\n(The download failed because the user token associated with the BITS job no longer exists)">>,
    <<32804, 24592, "WU_E_DM_DOWNLOADSANDBOXNOTFOUND\r\n(The sandbox directory for the downloaded update was not found)">>,
    <<32804, 24593, "WU_E_DM_DOWNLOADFILEPATHUNKNOWN\r\n(The downloaded update has an unknown file path)">>,
    <<32804, 24594, "WU_E_DM_DOWNLOADFILEMISSING\r\n(One or more of the files for the downloaded update is missing)">>,
    <<32804, 24595, "WU_E_DM_UPDATEREMOVED\r\n(An attempt was made to access a downloaded update that has already been removed)">>,
    <<32804, 24596, "WU_E_DM_READRANGEFAILED\r\n(Windows Update couldn't find a needed portion of a downloaded update's file)">>,
    <<32804, 24598, "WU_E_DM_UNAUTHORIZED_NO_USER\r\n(The download failed because the client was denied authorization to download the content due to no user logged on)">>,
    <<32804, 24599, "WU_E_DM_UNAUTHORIZED_LOCAL_USER\r\n(The download failed because the local user was denied authorization to download the content)">>,
    <<32804, 24600, "WU_E_DM_UNAUTHORIZED_DOMAIN_USER\r\n(The download failed because the domain user was denied authorization to download the content)">>,
    <<32804, 24601, "WU_E_DM_UNAUTHORIZED_MSA_USER\r\n(The download failed because the MSA account associated with the user was denied authorization to download the content)">>,
    <<32804, 24602, "WU_E_DM_FALLINGBACKTOBITS\r\n(The download will be continued by falling back to BITS to download the content)">>,
    <<32804, 24603, "WU_E_DM_DOWNLOAD_VOLUME_CONFLICT\r\n(Another caller has requested download to a different volume)">>,
    <<32804, 24604, "WU_E_DM_SANDBOX_HASH_MISMATCH\r\n(The hash of the update's sandbox does not match the expected value)">>,
    <<32804, 24605, "WU_E_DM_HARDRESERVEID_CONFLICT\r\n(The hard reserve id specified conflicts with an id from another caller)">>,
    <<32804, 24606, "WU_E_DM_DOSVC_REQUIRED\r\n(The update has to be downloaded via DO)">>,
    <<32804, 24607, "WU_E_DM_DOWNLOADTYPE_CONFLICT\r\n(Windows Update only supports one download type per update at one time. The download failure is by design here since the same update with different download type is operating. Please try again later)">>,
    <<32804, 28671, "WU_E_DM_UNEXPECTED\r\n(There was a download manager error not covered by another WU_E_DM_* error code)">>,
    <<32804, 53249, "WU_E_SETUP_INVALID_INFDATA\r\n(Windows Update Agent could not be updated because an INF file contains invalid information)">>,
    <<32804, 53250, "WU_E_SETUP_INVALID_IDENTDATA\r\n(Windows Update Agent could not be updated because the wuident.cab file contains invalid information)">>,
    <<32804, 53251, "WU_E_SETUP_ALREADY_INITIALIZED\r\n(Windows Update Agent could not be updated because of an internal error that caused setup initialization to be performed twice)">>,
    <<32804, 53252, "WU_E_SETUP_NOT_INITIALIZED\r\n(Windows Update Agent could not be updated because setup initialization never completed successfully)">>,
    <<32804, 53253, "WU_E_SETUP_SOURCE_VERSION_MISMATCH\r\n(Windows Update Agent could not be updated because the versions specified in the INF do not match the actual source file versions)">>,
    <<32804, 53254, "WU_E_SETUP_TARGET_VERSION_GREATER\r\n(Windows Update Agent could not be updated because a WUA file on the target system is newer than the corresponding source file)">>,
    <<32804, 53255, "WU_E_SETUP_REGISTRATION_FAILED\r\n(Windows Update Agent could not be updated because regsvr32.exe returned an error)">>,
    <<32804, 53256, "WU_E_SELFUPDATE_SKIP_ON_FAILURE\r\n(An update to the Windows Update Agent was skipped because previous attempts to update have failed)">>,
    <<32804, 53257, "WU_E_SETUP_SKIP_UPDATE\r\n(An update to the Windows Update Agent was skipped due to a directive in the wuident.cab file)">>,
    <<32804, 53258, "WU_E_SETUP_UNSUPPORTED_CONFIGURATION\r\n(Windows Update Agent could not be updated because the current system configuration is not supported)">>,
    <<32804, 53259, "WU_E_SETUP_BLOCKED_CONFIGURATION\r\n(Windows Update Agent could not be updated because the system is configured to block the update)">>,
    <<32804, 53260, "WU_E_SETUP_REBOOT_TO_FIX\r\n(Windows Update Agent could not be updated because a restart of the system is required)">>,
    <<32804, 53261, "WU_E_SETUP_ALREADYRUNNING\r\n(Windows Update Agent setup is already running)">>,
    <<32804, 53262, "WU_E_SETUP_REBOOTREQUIRED\r\n(Windows Update Agent setup package requires a reboot to complete installation)">>,
    <<32804, 53263, "WU_E_SETUP_HANDLER_EXEC_FAILURE\r\n(Windows Update Agent could not be updated because the setup handler failed during execution)">>,
    <<32804, 53264, "WU_E_SETUP_INVALID_REGISTRY_DATA\r\n(Windows Update Agent could not be updated because the registry contains invalid information)">>,
    <<32804, 53265, "WU_E_SELFUPDATE_REQUIRED\r\n(Windows Update Agent must be updated before search can continue)">>,
    <<32804, 53266, "WU_E_SELFUPDATE_REQUIRED_ADMIN\r\n(Windows Update Agent must be updated before search can continue.  An administrator is required to perform the operation)">>,
    <<32804, 53267, "WU_E_SETUP_WRONG_SERVER_VERSION\r\n(Windows Update Agent could not be updated because the server does not contain update information for this version)">>,
    <<32804, 53268, "WU_E_SETUP_DEFERRABLE_REBOOT_PENDING\r\n(Windows Update Agent is successfully updated, but a reboot is required to complete the setup)">>,
    <<32804, 53269, "WU_E_SETUP_NON_DEFERRABLE_REBOOT_PENDING\r\n(Windows Update Agent is successfully updated, but a reboot is required to complete the setup)">>,
    <<32804, 53270, "WU_E_SETUP_FAIL\r\n(Windows Update Agent could not be updated because of an unknown error)">>,
    <<32804, 57343, "WU_E_SETUP_UNEXPECTED\r\n(Windows Update Agent could not be updated because of an error not covered by another WU_E_SETUP_* error code)">>,
    <<32804, 57345, "WU_E_EE_UNKNOWN_EXPRESSION\r\n(An expression evaluator operation could not be completed because an expression was unrecognized)">>,
    <<32804, 57346, "WU_E_EE_INVALID_EXPRESSION\r\n(An expression evaluator operation could not be completed because an expression was invalid)">>,
    <<32804, 57347, "WU_E_EE_MISSING_METADATA\r\n(An expression evaluator operation could not be completed because an expression contains an incorrect number of metadata nodes)">>,
    <<32804, 57348, "WU_E_EE_INVALID_VERSION\r\n(An expression evaluator operation could not be completed because the version of the serialized expression data is invalid)">>,
    <<32804, 57349, "WU_E_EE_NOT_INITIALIZED\r\n(The expression evaluator could not be initialized)">>,
    <<32804, 57350, "WU_E_EE_INVALID_ATTRIBUTEDATA\r\n(An expression evaluator operation could not be completed because there was an invalid attribute)">>,
    <<32804, 57351, "WU_E_EE_CLUSTER_ERROR\r\n(An expression evaluator operation could not be completed because the cluster state of the computer could not be determined)">>,
    <<32804, 61439, "WU_E_EE_UNEXPECTED\r\n(There was an expression evaluator error not covered by another WU_E_EE_* error code)">>,
    <<32804, 12289, "WU_E_INSTALLATION_RESULTS_UNKNOWN_VERSION\r\n(The results of download and installation could not be read from the registry due to an unrecognized data format version)">>,
    <<32804, 12290, "WU_E_INSTALLATION_RESULTS_INVALID_DATA\r\n(The results of download and installation could not be read from the registry due to an invalid data format)">>,
    <<32804, 12291, "WU_E_INSTALLATION_RESULTS_NOT_FOUND\r\n(The results of download and installation are not available; the operation may have failed to start)">>,
    <<32804, 12292, "WU_E_TRAYICON_FAILURE\r\n(A failure occurred when trying to create an icon in the taskbar notification area)">>,
    <<32804, 16381, "WU_E_NON_UI_MODE\r\n(Unable to show UI when in non-UI mode; WU client UI modules may not be installed)">>,
    <<32804, 16382, "WU_E_WUCLTUI_UNSUPPORTED_VERSION\r\n(Unsupported version of WU client UI exported functions)">>,
    <<32804, 16383, "WU_E_AUCLIENT_UNEXPECTED\r\n(There was a user interface error not covered by another WU_E_AUCLIENT_* error code)">>,
    <<32804, 61441, "WU_E_REPORTER_EVENTCACHECORRUPT\r\n(The event cache file was defective)">>,
    <<32804, 61442, "WU_E_REPORTER_EVENTNAMESPACEPARSEFAILED\r\n(The XML in the event namespace descriptor could not be parsed)">>,
    <<32804, 61443, "WU_E_INVALID_EVENT\r\n(The XML in the event namespace descriptor could not be parsed)">>,
    <<32804, 61444, "WU_E_SERVER_BUSY\r\n(The server rejected an event because the server was too busy)">>,
    <<32804, 61445, "WU_E_CALLBACK_COOKIE_NOT_FOUND\r\n(The specified callback cookie is not found)">>,
    <<32804, 65535, "WU_E_REPORTER_UNEXPECTED\r\n(There was a reporter error not covered by another error code)">>,
    <<32804, 28673, "WU_E_OL_INVALID_SCANFILE\r\n(An operation could not be completed because the scan package was invalid)">>,
    <<32804, 28674, "WU_E_OL_NEWCLIENT_REQUIRED\r\n(An operation could not be completed because the scan package requires a greater version of the Windows Update Agent)">>,
    <<32804, 28675, "WU_E_INVALID_EVENT_PAYLOAD\r\n(An invalid event payload was specified)">>,
    <<32804, 28676, "WU_E_INVALID_EVENT_PAYLOADSIZE\r\n(The size of the event payload submitted is invalid)">>,
    <<32804, 28677, "WU_E_SERVICE_NOT_REGISTERED\r\n(The service is not registered)">>,
    <<32804, 32767, "WU_E_OL_UNEXPECTED\r\n(Search using the scan package failed)">>,
    <<32804, 28928, "WU_E_METADATA_NOOP\r\n(No operation was required by update metadata verification)">>,
    <<32804, 28929, "WU_E_METADATA_CONFIG_INVALID_BINARY_ENCODING\r\n(The binary encoding of metadata config data was invalid)">>,
    <<32804, 28930, "WU_E_METADATA_FETCH_CONFIG\r\n(Unable to fetch required configuration for metadata signature verification)">>,
    <<32804, 28932, "WU_E_METADATA_INVALID_PARAMETER\r\n(A metadata verification operation failed due to an invalid parameter)">>,
    <<32804, 28933, "WU_E_METADATA_UNEXPECTED\r\n(A metadata verification operation failed due to reasons not covered by another error code)">>,
    <<32804, 28934, "WU_E_METADATA_NO_VERIFICATION_DATA\r\n(None of the update metadata had verification data, which may be disabled on the update server)">>,
    <<32804, 28935, "WU_E_METADATA_BAD_FRAGMENTSIGNING_CONFIG\r\n(The fragment signing configuration used for verifying update metadata signatures was bad)">>,
    <<32804, 28936, "WU_E_METADATA_FAILURE_PROCESSING_FRAGMENTSIGNING_CONFIG\r\n(There was an unexpected operational failure while parsing fragment signing configuration)">>,
    <<32804, 28960, "WU_E_METADATA_XML_MISSING\r\n(Required xml data was missing from configuration)">>,
    <<32804, 28961, "WU_E_METADATA_XML_FRAGMENTSIGNING_MISSING\r\n(Required fragmentsigning data was missing from xml configuration)">>,
    <<32804, 28962, "WU_E_METADATA_XML_MODE_MISSING\r\n(Required mode data was missing from xml configuration)">>,
    <<32804, 28963, "WU_E_METADATA_XML_MODE_INVALID\r\n(An invalid metadata enforcement mode was detected)">>,
    <<32804, 28964, "WU_E_METADATA_XML_VALIDITY_INVALID\r\n(An invalid timestamp validity window configuration was detected)">>,
    <<32804, 28965, "WU_E_METADATA_XML_LEAFCERT_MISSING\r\n(Required leaf certificate data was missing from xml configuration)">>,
    <<32804, 28966, "WU_E_METADATA_XML_INTERMEDIATECERT_MISSING\r\n(Required intermediate certificate data was missing from xml configuration)">>,
    <<32804, 28967, "WU_E_METADATA_XML_LEAFCERT_ID_MISSING\r\n(Required leaf certificate id attribute was missing from xml configuration)">>,
    <<32804, 28968, "WU_E_METADATA_XML_BASE64CERDATA_MISSING\r\n(Required certificate base64CerData attribute was missing from xml configuration)">>,
    <<32804, 28992, "WU_E_METADATA_BAD_SIGNATURE\r\n(The metadata for an update was found to have a bad or invalid digital signature)">>,
    <<32804, 28993, "WU_E_METADATA_UNSUPPORTED_HASH_ALG\r\n(An unsupported hash algorithm for metadata verification was specified)">>,
    <<32804, 28994, "WU_E_METADATA_SIGNATURE_VERIFY_FAILED\r\n(An error occurred during an update's metadata signature verification)">>,
    <<32804, 29008, "WU_E_METADATATRUST_CERTIFICATECHAIN_VERIFICATION\r\n(An failure occurred while verifying trust for metadata signing certificate chains)">>,
    <<32804, 29009, "WU_E_METADATATRUST_UNTRUSTED_CERTIFICATECHAIN\r\n(A metadata signing certificate had an untrusted certificate chain)">>,
    <<32804, 29024, "WU_E_METADATA_TIMESTAMP_TOKEN_MISSING\r\n(An expected metadata timestamp token was missing)">>,
    <<32804, 29025, "WU_E_METADATA_TIMESTAMP_TOKEN_VERIFICATION_FAILED\r\n(A metadata Timestamp token failed verification)">>,
    <<32804, 29026, "WU_E_METADATA_TIMESTAMP_TOKEN_UNTRUSTED\r\n(A metadata timestamp token signer certificate chain was untrusted)">>,
    <<32804, 29027, "WU_E_METADATA_TIMESTAMP_TOKEN_VALIDITY_WINDOW\r\n(A metadata signature timestamp token was no longer within the validity window)">>,
    <<32804, 29028, "WU_E_METADATA_TIMESTAMP_TOKEN_SIGNATURE\r\n(A metadata timestamp token failed signature validation)">>,
    <<32804, 29029, "WU_E_METADATA_TIMESTAMP_TOKEN_CERTCHAIN\r\n(A metadata timestamp token certificate failed certificate chain verification)">>,
    <<32804, 29030, "WU_E_METADATA_TIMESTAMP_TOKEN_REFRESHONLINE\r\n(A failure occurred when refreshing a missing timestamp token from the network)">>,
    <<32804, 29031, "WU_E_METADATA_TIMESTAMP_TOKEN_ALL_BAD\r\n(All update metadata verification timestamp tokens from the timestamp token cache are invalid)">>,
    <<32804, 29032, "WU_E_METADATA_TIMESTAMP_TOKEN_NODATA\r\n(No update metadata verification timestamp tokens exist in the timestamp token cache)">>,
    <<32804, 29033, "WU_E_METADATA_TIMESTAMP_TOKEN_CACHELOOKUP\r\n(An error occurred during cache lookup of update metadata verification timestamp token)">>,
    <<32804, 29054, "WU_E_METADATA_TIMESTAMP_TOKEN_VALIDITYWINDOW_UNEXPECTED\r\n(An metadata timestamp token validity window failed unexpectedly due to reasons not covered by another error code)">>,
    <<32804, 29055, "WU_E_METADATA_TIMESTAMP_TOKEN_UNEXPECTED\r\n(An metadata timestamp token verification operation failed due to reasons not covered by another error code)">>,
    <<32804, 29056, "WU_E_METADATA_CERT_MISSING\r\n(An expected metadata signing certificate was missing)">>,
    <<32804, 29057, "WU_E_METADATA_LEAFCERT_BAD_TRANSPORT_ENCODING\r\n(The transport encoding of a metadata signing leaf certificate was malformed)">>,
    <<32804, 29058, "WU_E_METADATA_INTCERT_BAD_TRANSPORT_ENCODING\r\n(The transport encoding of a metadata signing intermediate certificate was malformed)">>,
    <<32804, 29059, "WU_E_METADATA_CERT_UNTRUSTED\r\n(A metadata certificate chain was untrusted)">>,
    <<32804, 45057, "WU_E_WUTASK_INPROGRESS\r\n(The task is currently in progress)">>,
    <<32804, 45058, "WU_E_WUTASK_STATUS_DISABLED\r\n(The operation cannot be completed since the task status is currently disabled)">>,
    <<32804, 45059, "WU_E_WUTASK_NOT_STARTED\r\n(The operation cannot be completed since the task is not yet started)">>,
    <<32804, 45060, "WU_E_WUTASK_RETRY\r\n(The task was stopped and needs to be run again to complete)">>,
    <<32804, 45061, "WU_E_WUTASK_CANCELINSTALL_DISALLOWED\r\n(Cannot cancel a non-scheduled install)">>,
    <<32804, 45313, "WU_E_UNKNOWN_HARDWARECAPABILITY\r\n(Hardware capability meta data was not found after a sync with the service)">>,
    <<32804, 45314, "WU_E_BAD_XML_HARDWARECAPABILITY\r\n(Hardware capability meta data was malformed and/or failed to parse)">>,
    <<32804, 45315, "WU_E_WMI_NOT_SUPPORTED\r\n(Unable to complete action due to WMI dependency, which isn't supported on this platform)">>,
    <<32804, 45316, "WU_E_UPDATE_MERGE_NOT_ALLOWED\r\n(Merging of the update is not allowed)">>,
    <<32804, 45317, "WU_E_SKIPPED_UPDATE_INSTALLATION\r\n(Installing merged updates only. So skipping non mergeable updates)">>,
    <<32804, 45569, "WU_E_SLS_INVALID_REVISION\r\n(SLS response returned invalid revision number)">>,
    <<32804, 45825, "WU_E_FILETRUST_DUALSIGNATURE_RSA\r\n(File signature validation fails to find valid RSA signature on infrastructure payload)">>,
    <<32804, 45826, "WU_E_FILETRUST_DUALSIGNATURE_ECC\r\n(File signature validation fails to find valid ECC signature on infrastructure payload)">>,
    <<32804, 45827, "WU_E_TRUST_SUBJECT_NOT_TRUSTED\r\n(The subject is not trusted by WU for the specified action)">>,
    <<32804, 45828, "WU_E_TRUST_PROVIDER_UNKNOWN\r\n(Unknown trust provider for WU)">>
  >>
-----------------------------------------------------------------------------
(* std::map<int, std::wstring>                                             *)

\* the empty map
EmptyMap == << >>

\* m[k] = s  (operator[] followed by assignment: insert or overwrite)
MapAssign(m, k, s) ==
    IF k \in DOMAIN m THEN [m EXCEPT ![k] = s]
                      ELSE m @@ (k :> s)

\* m.count(k)
MapCount(m, k) == IF k \in DOMAIN m THEN 1 ELSE 0

\* the key of statement i of a populate function: its literal, converted
\* to the int the map is keyed by
KeyOf(codes, i) == ToInt(<<codes[i][1], codes[i][2]>>)

\* LastAssignment for a map filled with insert(): the first statement
\* that names key k keeps its string
FirstAssignment(codes, k) ==
    CHOOSE i \in 1..Len(codes) :
        /\ KeyOf(codes, i) = k
        /\ \A j \in 1..(i - 1) : KeyOf(codes, j) # k

\* the last statement of a populate function that assigns to key k
LastAssignment(codes, k) ==
    CHOOSE i \in 1..Len(codes) :
        /\ KeyOf(codes, i) = k
        /\ \A j \in (i + 1)..Len(codes) : KeyOf(codes, j) # k

\* the statements of a populate function, run in their order on map m:
\* every key assigned holds the string of the last assignment to it, and
\* the other entries of m stay
RunAssignments(m, codes) ==
    LET assigned == {KeyOf(codes, i) : i \in 1..Len(codes)}
    IN  [k \in DOMAIN m \cup assigned |->
            IF k \in assigned THEN codes[LastAssignment(codes, k)][3] ELSE m[k]]

\* setLDAPCodes that assigns nothing
setLDAPCodesSkipped(m) == m

\* setWUCodes with one more statement, g_mWU[0x00000005] = L"WU_E_FIVE";
setWUCodesAndFive(m) == MapAssign(RunAssignments(m, WUCodes), 5, "WU_E_FIVE")

\* the maps that the populate functions leave behind when run on map m
setWUCodes(m) == RunAssignments(m, WUCodes)
setLDAPCodes(m) == RunAssignments(m, LDAPCodes)
setBugCheckCodes(m) == RunAssignments(m, BugCheckCodes)

-----------------------------------------------------------------------------
(* Characters                                                              *)

DecChars == <<"0", "1", "2", "3", "4", "5", "6", "7", "8", "9">>
UpperHexChars == DecChars \o <<"A", "B", "C", "D", "E", "F">>
LowerHexChars == DecChars \o <<"a", "b", "c", "d", "e", "f">>

\* the Unicode minus sign L'\x2212'
UnicodeMinus == "U+2212"

\* characters below L' '
ControlChars == {"BS", "TAB", "LF", "CR"}

\* index (from 0) of character ch in the list chars, -1 if it is not there
IndexIn(chars, ch) ==
    IF \E i \in 1..Len(chars) : chars[i] = ch
    THEN (CHOOSE i \in 1..Len(chars) : chars[i] = ch) - 1
    ELSE -1

IsDigit(ch) == IndexIn(DecChars, ch) >= 0
IsXDigit(ch) == IndexIn(UpperHexChars, ch) >= 0 \/ IndexIn(LowerHexChars, ch) >= 0
XDigitValue(ch) ==
    IF IndexIn(UpperHexChars, ch) >= 0 THEN IndexIn(UpperHexChars, ch)
                                       ELSE IndexIn(LowerHexChars, ch)

\* the first n characters of a text
Take(s, n) == SubSeq(s, 1, IF Len(s) < n THEN Len(s) ELSE n)

\* character i of a zero-terminated text: "NUL" at and after the end
At(s, i) == IF i <= Len(s) THEN s[i] ELSE "NUL"

-----------------------------------------------------------------------------
(* StrToIntEx(szValue, STIF_SUPPORT_HEX, &iValue) of shlwapi: optional     *)
(* white space, optional sign '+' or '-', then either 0x/0X and one or     *)
(* more hexadecimal digits (the sign is not applied) or one or more        *)
(* decimal digits.  The conversion stops at the first character that is    *)
(* not a digit, and the 64-bit result is cut to its low 32 bits.           *)

\* the index of the first character at or after i that is not white space
RECURSIVE SkipSpace(_, _)
SkipSpace(s, i) ==
    IF At(s, i) \in {" ", "TAB", "LF"} THEN SkipSpace(s, i + 1) ELSE i

\* the digits of the given base from index i on, accumulated onto the
\* word acc.  The first test holds of no word (a half is below 2^16); it
\* has TLC evaluate acc at every digit, so that a text of MAXVALUELENTH
\* digits does not nest as many additions
RECURSIVE ReadDigits(_, _, _, _)
ReadDigits(s, i, base, acc) ==
    IF acc[1] >= Half THEN acc
    ELSE IF base = 16 /\ IsXDigit(At(s, i))
        THEN ReadDigits(s, i + 1, base, MulAdd(acc, 16, XDigitValue(At(s, i))))
    ELSE IF base = 10 /\ IsDigit(At(s, i))
        THEN ReadDigits(s, i + 1, base, MulAdd(acc, 10, IndexIn(DecChars, At(s, i))))
    ELSE acc

StrToIntEx(s, supportHex) ==
    LET i0 == SkipSpace(s, 1)
        negative == At(s, i0) = "-"
        i1 == IF At(s, i0) \in {"-", "+"} THEN i0 + 1 ELSE i0
        isHex == supportHex /\ At(s, i1) = "0" /\ At(s, i1 + 1) \in {"x", "X"}
    IN  IF isHex THEN
            IF IsXDigit(At(s, i1 + 2))
                THEN [ok |-> TRUE, value |-> ToInt(ReadDigits(s, i1 + 2, 16, <<0, 0>>))]
                ELSE [ok |-> FALSE, value |-> 0]
        ELSE IF IsDigit(At(s, i1))
            THEN LET v == ReadDigits(s, i1, 10, <<0, 0>>)
                 IN  [ok |-> TRUE, value |-> ToInt(IF negative THEN Negate(v) ELSE v)]
            ELSE [ok |-> FALSE, value |-> 0]

-----------------------------------------------------------------------------
(* Formatting                                                              *)

\* std::to_wstring of an unsigned 32-bit value
RECURSIVE UnsignedToWstring(_)
UnsignedToWstring(w) ==
    LET qr == DivTen(w)
    IN  IF qr[1] = <<0, 0>> THEN <<DecChars[qr[2] + 1]>>
        ELSE UnsignedToWstring(qr[1]) \o <<DecChars[qr[2] + 1]>>

\* std::to_wstring((DWORD)iValue)
DwordToWstring(i) == UnsignedToWstring(ToDWORD(i))

\* std::to_wstring((int)iValue)
IntToWstring(i) ==
    IF i < 0 THEN <<"-">> \o UnsignedToWstring(Negate(ToDWORD(i)))
             ELSE UnsignedToWstring(ToDWORD(i))

\* HalfToHex with lower-case digits (%04x)
HalfToHexLower(h) ==
    << LowerHexChars[(h \div 4096) + 1], LowerHexChars[((h \div 256) % 16) + 1],
       LowerHexChars[((h \div 16) % 16) + 1], LowerHexChars[(h % 16) + 1] >>

\* the four hexadecimal digits of a 16-bit half, upper case (%04X)
HalfToHex(h) ==
    << UpperHexChars[(h \div 4096) + 1], UpperHexChars[((h \div 256) % 16) + 1],
       UpperHexChars[((h \div 16) % 16) + 1], UpperHexChars[(h % 16) + 1] >>

\* _snwprintf_s(szHex, count, _TRUNCATE, L"0x%08X", iValue)
FormatHex(i, count) ==
    Take(<<"0", "x">> \o HalfToHex(ToDWORD(i)[1]) \o HalfToHex(ToDWORD(i)[2]), count - 1)

\* StrTrim(psz, trimChars): removes leading and trailing characters of trimChars
RECURSIVE TrimTrailing(_, _)
TrimTrailing(s, trimChars) ==
    IF s # <<>> /\ s[Len(s)] \in trimChars
        THEN TrimTrailing(SubSeq(s, 1, Len(s) - 1), trimChars) ELSE s

RECURSIVE TrimLeading(_, _)
TrimLeading(s, trimChars) ==
    IF s # <<>> /\ s[1] \in trimChars THEN TrimLeading(Tail(s), trimChars) ELSE s

StrTrim(s, trimChars) == TrimLeading(TrimTrailing(s, trimChars), trimChars)

-----------------------------------------------------------------------------
(* Bounds of the exploration                                               *)

\* typing is explored on texts of at most this many characters
MaxTyped == 2

-----------------------------------------------------------------------------
(* The environment: the user and the system                                *)

\* the characters the user types (WM_CHAR)
TypedChars == {"1", "-", "g", "BS"}

\* the caret offsets at which the user types: the start and the end
CaretOffsets(text) == {0, Len(text)}

\* the texts the user pastes into the input edit control
PasteTexts == {
    <<>>,
    <<"0", "x", "1", "A">>,
    <<"0", "x", "0", "5">>,
    <<"-", "1">>,
    <<"0", "x", "8", "0", "2", "4", "0", "0", "0", "1">>,
    <<"1", "2", "3", "4", "5", "6", "7">>,
    <<"a", "b", "c">>,
    <<"1", "x", "2">>
  }

\* the buffers FormatMessage can allocate for a code it knows
SystemMessages == {
    <<"{Operation Failed}", "CR", "LF", "The requested operation was unsuccessful.", "CR", "LF">>
  }

\* what FormatMessage leaves in the buffer: a message, or nothing (size 0)
FormatMessageResults == SystemMessages \cup {<<>>}

-----------------------------------------------------------------------------
(* State                                                                   *)

VARIABLES
    pc,           \* where the process is: wWinMain's steps, the dialog, ended
                  \* by IDCANCEL, destroyed, or terminated by the heap
    g_mWU,        \* std::map<int, std::wstring> g_mWU
    g_mLDAP,      \* std::map<int, std::wstring> g_mLDAP
    g_mBugCheck,  \* std::map<int, std::wstring> g_mBugCheck
    inputText,    \* the text of the edit control IDC_INPUT
    outputText,   \* the text of the control IDC_OUTPUT
    registry,     \* the registry value LastInput: [present, text]
    handled,      \* the last message the dialog handled; for a command
                  \* that starts a translation, whether StrToIntEx
                  \* succeeded; for a command, the result WndProcMainDialog
                  \* returns; for WM_CTLCOLORSTATIC, the control and the
                  \* brush returned
    lookup,       \* the locals of the last translation that ran
    first,        \* history: the first command that started a translation,
                  \* its outcome, and what the commands after it did; the
                  \* character and the caret offset of the last WM_CHAR
    g_hbrOutputBackground,  \* HBRUSH g_hbrOutputBackground
    gdi           \* the brushes of the process: how many CreateSolidBrush
                  \* made, which of them exist, and the handles DeleteObject
                  \* was given, in order

vars == <<pc, g_mWU, g_mLDAP, g_mBugCheck, inputText, outputText, registry,
          handled, lookup, first, g_hbrOutputBackground, gdi>>

\* the handle that names no brush; a brush has the number of its creation
NULL == 0

\* no brush was made
NoBrushes == [created |-> 0, live |-> {}, released |-> <<>>]

\* no translation has run yet
NoLookup == [iValue |-> 0, win32 |-> <<>>, hDLL |-> FALSE, nt |-> <<>>,
             queried |-> <<>>, released |-> <<>>]

\* the history is not kept
NotRecording == [recording |-> FALSE, set |-> FALSE, text |-> <<>>, ok |-> FALSE,
                 lookup |-> NoLookup, report |-> <<>>, between |-> {}, key |-> <<>>]

\* the history is kept and no command has started a translation yet
Recording == [NotRecording EXCEPT !.recording = TRUE]

\* no message has been handled yet
NothingHandled == [msg |-> "none", ok |-> FALSE]

Init ==
    /\ pc = "wWinMain"
    /\ g_mWU = EmptyMap
    /\ g_mLDAP = EmptyMap
    /\ g_mBugCheck = EmptyMap
    /\ inputText = <<>>
    /\ outputText = <<>>
    /\ registry = [present |-> FALSE, text |-> <<>>]
    /\ handled = NothingHandled
    /\ lookup = NoLookup
    /\ first = NotRecording
    /\ g_hbrOutputBackground = NULL
    /\ gdi = NoBrushes

-----------------------------------------------------------------------------
(* wWinMain                                                                *)

\* setWUCodes();
RunSetWUCodes ==
    /\ pc = "wWinMain"
    /\ g_mWU' = setWUCodes(g_mWU)
    /\ pc' = "setLDAPCodes"
    /\ UNCHANGED <<g_mLDAP, g_mBugCheck, inputText, outputText, registry, handled, lookup, first,
                   g_hbrOutputBackground, gdi>>

\* setLDAPCodes();
RunSetLDAPCodes ==
    /\ pc = "setLDAPCodes"
    /\ g_mLDAP' = setLDAPCodes(g_mLDAP)
    /\ pc' = "setBugCheckCodes"
    /\ UNCHANGED <<g_mWU, g_mBugCheck, inputText, outputText, registry, handled, lookup, first,
                   g_hbrOutputBackground, gdi>>

\* RunSetBugCheckCodes without the call: the dialog is started while the
\* table is empty
RunSetBugCheckCodesLater ==
    /\ pc = "setBugCheckCodes"
    /\ pc' = "DialogBox"
    /\ UNCHANGED <<g_mWU, g_mLDAP, g_mBugCheck, inputText, outputText, registry,
                   handled, lookup, first,
                   g_hbrOutputBackground, gdi>>

\* setBugCheckCodes();
RunSetBugCheckCodes ==
    /\ pc = "setBugCheckCodes"
    /\ g_mBugCheck' = setBugCheckCodes(g_mBugCheck)
    /\ pc' = "DialogBox"
    /\ UNCHANGED <<g_mWU, g_mLDAP, inputText, outputText, registry, handled, lookup, first,
                   g_hbrOutputBackground, gdi>>

\* StoredInput with a buffer that has no room for the termination
StoredInputShortBuffer(reg) ==
    LET valueSize == (Len(reg.text) + 1) * SizeofWCHAR
    IN  IF /\ reg.present
           /\ valueSize > 0
           /\ valueSize <= (MAXVALUELENTH + 2) * SizeofWCHAR
           /\ valueSize <= MAXVALUELENTH * SizeofWCHAR
        THEN reg.text ELSE <<>>

\* the text WM_INITDIALOG puts into the input edit control: the registry
\* value when its size passes the check (first RegGetValue) and it fits
\* the buffer of MAXVALUELENTH + 1 characters (second RegGetValue, which
\* fails with ERROR_MORE_DATA otherwise); the control is empty otherwise
StoredInput(reg) ==
    LET valueSize == (Len(reg.text) + 1) * SizeofWCHAR
    IN  IF /\ reg.present
           /\ valueSize > 0
           /\ valueSize <= (MAXVALUELENTH + 2) * SizeofWCHAR
           /\ valueSize <= (MAXVALUELENTH + 1) * SizeofWCHAR
        THEN reg.text ELSE <<>>

\* DialogBox(...): the dialog is created and handles WM_INITDIALOG
InitDialog ==
    /\ pc = "DialogBox"
    /\ inputText' = StoredInput(registry)
    /\ handled' = [msg |-> "WM_INITDIALOG", ok |-> FALSE]
    /\ pc' = "dialog"
    /\ UNCHANGED <<g_mWU, g_mLDAP, g_mBugCheck, outputText, registry, lookup, first,
                   g_hbrOutputBackground, gdi>>

-----------------------------------------------------------------------------
(* The input edit control                                                  *)

\* FilterPasses without the call of IsAtStartOfEditControl: a minus sign
\* is passed on at every caret position
FilterPassesMinusAnywhere(ch, atStart) ==
    IF ch \in ControlChars THEN TRUE
    ELSE IF ch = "-" \/ ch = UnicodeMinus THEN TRUE
    ELSE IF ch \in {"0", "1", "2", "3", "4", "5", "6", "7", "8", "9", "x",
                    "a", "b", "c", "d", "e", "f", "A", "B", "C", "D", "E", "F"} THEN TRUE
    ELSE FALSE

\* SignedIntegerHexSubclassProc, WM_CHAR: TRUE when the character is passed
\* on to the edit control; atStart is IsAtStartOfEditControl
FilterPasses(ch, atStart) ==
    IF ch \in ControlChars THEN TRUE
    ELSE IF (ch = "-" \/ ch = UnicodeMinus) /\ atStart THEN TRUE
    ELSE IF ch \in {"0", "1", "2", "3", "4", "5", "6", "7", "8", "9", "x",
                    "a", "b", "c", "d", "e", "f", "A", "B", "C", "D", "E", "F"} THEN TRUE
    ELSE FALSE

\* the edit control's text after it received character ch with the caret
\* at offset pos: backspace deletes, a printable character is inserted
\* unless the text is at its EM_LIMITTEXT limit
EditChar(text, ch, pos) ==
    IF ch = "BS"
        THEN IF pos = 0 THEN text
             ELSE SubSeq(text, 1, pos - 1) \o SubSeq(text, pos + 1, Len(text))
    ELSE IF ch \in ControlChars \/ Len(text) >= MAXVALUELENTH THEN text
    ELSE SubSeq(text, 1, pos) \o <<ch>> \o SubSeq(text, pos + 1, Len(text))

\* the history after the character ch was typed at caret offset pos
Keyed(f, ch, pos) == IF f.recording THEN [f EXCEPT !.key = <<ch, pos>>] ELSE f

\* WM_CHAR to the input edit control: the user types one of chars with the
\* caret at offset pos.  Typing is explored on texts of at most MaxTyped
\* characters and on texts at the EM_LIMITTEXT limit, which do not grow
Typing(chars) ==
    /\ pc = "dialog"
    /\ Len(inputText) <= MaxTyped \/ Len(inputText) = MAXVALUELENTH
    /\ \E ch \in chars, pos \in CaretOffsets(inputText) :
          /\ ch # "BS" => Len(inputText) < MaxTyped \/ Len(inputText) = MAXVALUELENTH
          /\ inputText' = IF FilterPasses(ch, pos = 0)
                             THEN EditChar(inputText, ch, pos) ELSE inputText
          /\ first' = Keyed(first, ch, pos)
    /\ handled' = [msg |-> "WM_CHAR", ok |-> FALSE]
    /\ UNCHANGED <<pc, g_mWU, g_mLDAP, g_mBugCheck, outputText, registry, lookup,
                   g_hbrOutputBackground, gdi>>

\* the user types a character
TypeChar == Typing(TypedChars)

\* the user replaces the text by a pasted one, one of texts (WM_PASTE is
\* not filtered; the edit control cuts it at its EM_LIMITTEXT limit)
Pasting(texts) ==
    /\ pc = "dialog"
    /\ \E t \in texts : inputText' = Take(t, MAXVALUELENTH)
    /\ handled' = [msg |-> "WM_PASTE", ok |-> FALSE]
    /\ UNCHANGED <<pc, g_mWU, g_mLDAP, g_mBugCheck, outputText, registry, lookup, first,
                   g_hbrOutputBackground, gdi>>

\* the user pastes one of PasteTexts
Paste == Pasting(PasteTexts)

-----------------------------------------------------------------------------
(* WM_COMMAND, IDOK and IDC_BUTTONSEARCH: the translation                  *)

\* m[k] of std::map: a reference to the entry of k, which is inserted with
\* an empty string when k has none
MapIndex(m, k) ==
    IF k \in DOMAIN m THEN [map |-> m, value |-> m[k]]
                      ELSE [map |-> MapAssign(m, k, ""), value |-> ""]

\* the numeric values: DWORD, int and Hex
Header(iValue) ==
    <<"DWORD \t">> \o DwordToWstring(iValue) \o <<"CR", "LF">>
        \o <<"int \t">> \o IntToWstring(iValue) \o <<"CR", "LF">>
        \o <<"Hex \t">> \o FormatHex(iValue, MAX_ITOSTR_BASE16_COUNT + 2)

\* Win32Section without the test size > 0: the label is appended for
\* every code
Win32SectionUntested(win32) ==
    <<"CR", "LF", "CR", "LF", "Win32/HRESULT: ">> \o StrTrim(win32, {"LF"})

\* the message for Win32/HRESULT, appended when FormatMessage found one
Win32Section(win32) ==
    IF Len(win32) > 0
        THEN <<"CR", "LF", "CR", "LF", "Win32/HRESULT: ">> \o StrTrim(win32, {"LF"})
        ELSE <<>>

\* NtStatusSection without the StrTrim: the message keeps its last CR LF
NtStatusSectionUntrimmed(hDLL, nt) ==
    IF hDLL /\ Len(nt) > 0
        THEN <<"CR", "LF", "CR", "LF", "NTSTATUS: ">> \o nt
        ELSE <<>>

\* the message for NTSTATUS, appended when ntdll.dll is there and
\* FormatMessage found one
NtStatusSection(hDLL, nt) ==
    IF hDLL /\ Len(nt) > 0
        THEN <<"CR", "LF", "CR", "LF", "NTSTATUS: ">> \o StrTrim(nt, {"CR", "LF"})
        ELSE <<>>

\* TableSection with the test count(iValue) >= 0: appended for every code
TableSectionAlways(label, m, iValue) ==
    IF MapCount(m, iValue) >= 0
        THEN <<"CR", "LF", "CR", "LF", label>> \o <<MapIndex(m, iValue).value>>
        ELSE <<>>

\* the message of a table, appended when the code was found in it
TableSection(label, m, iValue) ==
    IF MapCount(m, iValue) > 0
        THEN <<"CR", "LF", "CR", "LF", label>> \o <<MapIndex(m, iValue).value>>
        ELSE <<>>

\* TableAfter with m[iValue] read without the test count(iValue) > 0
TableAfterIndexed(m, iValue) == MapIndex(m, iValue).map

\* the table after the translation used it
TableAfter(m, iValue) ==
    IF MapCount(m, iValue) > 0 THEN MapIndex(m, iValue).map ELSE m

\* Report with the stop code appended before the LDAP code
ReportBugCheckFirst(iValue, win32, hDLL, nt, mWU, mLDAP, mBugCheck) ==
    Header(iValue)
        \o Win32Section(win32)
        \o NtStatusSection(hDLL, nt)
        \o TableSection("WU: ", mWU, iValue)
        \o TableSection("StopCode/BugCheck: ", mBugCheck, iValue)
        \o TableSection("LDAP: ", mLDAP, iValue)

\* Report with the tables tested in an else-if chain: the first table that
\* holds the code ends the search
ReportFirstHitOnly(iValue, win32, hDLL, nt, mWU, mLDAP, mBugCheck) ==
    Header(iValue)
        \o Win32Section(win32)
        \o NtStatusSection(hDLL, nt)
        \o (IF MapCount(mWU, iValue) > 0
                THEN TableSection("WU: ", mWU, iValue)
            ELSE IF MapCount(mLDAP, iValue) > 0
                THEN TableSection("LDAP: ", mLDAP, iValue)
            ELSE TableSection("StopCode/BugCheck: ", mBugCheck, iValue))

\* sMessage as set to the output
Report(iValue, win32, hDLL, nt, mWU, mLDAP, mBugCheck) ==
    Header(iValue)
        \o Win32Section(win32)
        \o NtStatusSection(hDLL, nt)
        \o TableSection("WU: ", mWU, iValue)
        \o TableSection("LDAP: ", mLDAP, iValue)
        \o TableSection("StopCode/BugCheck: ", mBugCheck, iValue)

\* Queried with the tables asked before the system
QueriedTablesFirst(hDLL) ==
    <<"WU", "LDAP", "StopCode/BugCheck", "Win32/HRESULT">>
        \o (IF hDLL THEN <<"NTSTATUS">> ELSE <<>>)

\* the sources asked, in the order they are asked; FormatMessage is not
\* called for NTSTATUS when GetModuleHandle returned NULL
Queried(hDLL) ==
    <<"Win32/HRESULT">> \o (IF hDLL THEN <<"NTSTATUS">> ELSE <<>>)
        \o <<"WU", "LDAP", "StopCode/BugCheck">>

\* what the two calls LocalFree(messageBuffer) are given.  messageBuffer
\* starts as nullptr; a FormatMessage that finds a message stores the
\* buffer it allocated, one that finds none leaves NULL; LocalFree does not
\* reset the variable.  When FormatMessage is not called for NTSTATUS the
\* variable still holds what the first call stored
Released(win32, hDLL, nt) ==
    << IF win32 # <<>> THEN "Win32/HRESULT" ELSE "NULL",
       IF hDLL THEN (IF nt # <<>> THEN "NTSTATUS" ELSE "NULL")
               ELSE (IF win32 # <<>> THEN "Win32/HRESULT" ELSE "NULL") >>

\* what can follow the second LocalFree: it returns; given a buffer that
\* was released already, the heap may also end the process
LocalFreeOutcomes(released) ==
    IF released[2] # "NULL" /\ released[2] = released[1]
        THEN {"returns", "terminates"}
        ELSE {"returns"}

\* RegSetKeyValue that leaves a value that is there already
RegSetKeyValueOnce(reg, szValue) ==
    IF reg.present THEN reg ELSE [present |-> TRUE, text |-> szValue]

\* the registry value LastInput after RegSetKeyValue(..., szValue, ...)
RegSetKeyValue(reg, szValue) == [present |-> TRUE, text |-> szValue]

\* SetWindowText that appends to the text of the control
SetWindowTextAppending(text, lpString) == text \o lpString

\* the text of a control after SetWindowText(hWnd, lpString)
SetWindowText(text, lpString) == lpString

\* the history after a command has read szValue and ended with the
\* outcome ok, locals and report: the first command is remembered, and of
\* a later command on another text, whether it translated or rejected
Recorded(f, szValue, ok, locals, report) ==
    IF ~f.recording THEN f
    ELSE IF ~f.set
        THEN [f EXCEPT !.set = TRUE, !.text = szValue, !.ok = ok,
                       !.lookup = locals, !.report = report]
    ELSE IF szValue = f.text THEN f
    ELSE [f EXCEPT !.between = @ \cup {IF ok THEN "translated" ELSE "rejected"}]

\* Translate with the input stored in the registry before it is parsed
TranslateStoringFirst(cmd) ==
    /\ pc = "dialog"
    /\ LET szValue == Take(inputText, MAXVALUELENTH)
           parsed == StrToIntEx(szValue, TRUE)
           iValue == parsed.value
       IN  /\ registry' = RegSetKeyValue(registry, szValue)
           /\ IF parsed.ok
              THEN \E win32 \in FormatMessageResults, hDLL \in BOOLEAN,
                      nt \in FormatMessageResults :
                     LET released == Released(win32, hDLL, nt)
                         sMessage == Report(iValue, win32, hDLL, nt,
                                            g_mWU, g_mLDAP, g_mBugCheck)
                         locals == [iValue |-> iValue, win32 |-> win32, hDLL |-> hDLL,
                                    nt |-> nt, queried |-> Queried(hDLL),
                                    released |-> released]
                     IN  /\ ~hDLL => nt = <<>>
                         /\ handled' = [msg |-> cmd, ok |-> TRUE, result |-> FALSE]
                         /\ \E outcome \in LocalFreeOutcomes(released) :
                              IF outcome = "returns"
                              THEN /\ outputText' = SetWindowText(outputText, sMessage)
                                   /\ g_mWU' = TableAfter(g_mWU, iValue)
                                   /\ g_mLDAP' = TableAfter(g_mLDAP, iValue)
                                   /\ g_mBugCheck' = TableAfter(g_mBugCheck, iValue)
                                   /\ lookup' = locals
                                   /\ first' = Recorded(first, szValue, TRUE, locals,
                                                        outputText')
                                   /\ pc' = pc
                              ELSE /\ pc' = "terminated"
                                   /\ lookup' = [locals EXCEPT !.queried = <<"Win32/HRESULT">>]
                                   /\ UNCHANGED <<g_mWU, g_mLDAP, g_mBugCheck,
                                                  outputText, first>>
              ELSE /\ handled' = [msg |-> cmd, ok |-> FALSE, result |-> FALSE]
                   /\ first' = Recorded(first, szValue, FALSE, lookup, outputText)
                   /\ UNCHANGED <<pc, g_mWU, g_mLDAP, g_mBugCheck, outputText, lookup>>
    /\ UNCHANGED <<inputText, g_hbrOutputBackground, gdi>>

\* the handler of the commands that start a translation; the dialog has
\* its controls IDC_INPUT and IDC_OUTPUT, and RegSetKeyValue stores the
\* value.  The handler returns, or the process is ended by the second
\* LocalFree before the tables are asked and the output is set
Translate(cmd) ==
    /\ pc = "dialog"
    /\ LET szValue == Take(inputText, MAXVALUELENTH)
           parsed == StrToIntEx(szValue, TRUE)
           iValue == parsed.value
       IN  IF parsed.ok
           THEN \E win32 \in FormatMessageResults, hDLL \in BOOLEAN,
                   nt \in FormatMessageResults :
                  LET released == Released(win32, hDLL, nt)
                      sMessage == Report(iValue, win32, hDLL, nt,
                                         g_mWU, g_mLDAP, g_mBugCheck)
                      locals == [iValue |-> iValue, win32 |-> win32, hDLL |-> hDLL,
                                 nt |-> nt, queried |-> Queried(hDLL),
                                 released |-> released]
                  IN  /\ ~hDLL => nt = <<>>
                      /\ registry' = RegSetKeyValue(registry, szValue)
                      /\ handled' = [msg |-> cmd, ok |-> TRUE, result |-> FALSE]
                      /\ \E outcome \in LocalFreeOutcomes(released) :
                           IF outcome = "returns"
                           THEN /\ outputText' = SetWindowText(outputText, sMessage)
                                /\ g_mWU' = TableAfter(g_mWU, iValue)
                                /\ g_mLDAP' = TableAfter(g_mLDAP, iValue)
                                /\ g_mBugCheck' = TableAfter(g_mBugCheck, iValue)
                                /\ lookup' = locals
                                /\ first' = Recorded(first, szValue, TRUE, locals,
                                                     outputText')
                                /\ pc' = pc
                           ELSE /\ pc' = "terminated"
                                /\ lookup' = [locals EXCEPT !.queried = <<"Win32/HRESULT">>]
                                /\ UNCHANGED <<g_mWU, g_mLDAP, g_mBugCheck,
                                               outputText, first>>
           ELSE /\ handled' = [msg |-> cmd, ok |-> FALSE, result |-> FALSE]
                /\ first' = Recorded(first, szValue, FALSE, lookup, outputText)
                /\ UNCHANGED <<pc, g_mWU, g_mLDAP, g_mBugCheck, outputText,
                               registry, lookup>>
    /\ UNCHANGED <<inputText, g_hbrOutputBackground, gdi>>

\* case IDC_BUTTONSEARCH with a handler of its own, which stores the input
\* before it is parsed
CommandButtonSearchApart == TranslateStoringFirst("IDC_BUTTONSEARCH")

\* case IDOK: button press or ENTER
CommandOK == Translate("IDOK")

\* case IDC_BUTTONSEARCH
CommandButtonSearch == Translate("IDC_BUTTONSEARCH")

\* case IDCANCEL: window close or ESC ends the dialog
CommandCancel ==
    /\ pc = "dialog"
    /\ pc' = "ended"
    /\ handled' = [msg |-> "IDCANCEL", ok |-> FALSE, result |-> TRUE]
    /\ UNCHANGED <<g_mWU, g_mLDAP, g_mBugCheck, inputText, outputText, registry,
                   lookup, first,
                   g_hbrOutputBackground, gdi>>

\* what CreateSolidBrush can return and leave behind: a new brush, or
\* NULL when the brush could not be made
CreateSolidBrush(g) ==
    { [handle |-> g.created + 1,
       gdi |-> [g EXCEPT !.created = @ + 1, !.live = @ \cup {g.created + 1}]],
      [handle |-> NULL, gdi |-> g] }

\* the brushes after DeleteObject(h)
DeleteObject(g, h) == [g EXCEPT !.live = @ \ {h}, !.released = Append(@, h)]

\* the static controls of the dialog that ask for their colours
StaticControls == {"IDC_OUTPUT", "IDC_GITHUBLINK"}

\* case WM_CTLCOLORSTATIC: a static control is about to be drawn.  The
\* dialog procedure is called as long as the window exists, which it does
\* until WM_DESTROY has been handled and after
CtlColorStatic ==
    /\ pc \in {"dialog", "ended", "destroyed"}
    /\ \E control \in StaticControls :
          IF control = "IDC_OUTPUT"
          THEN /\ IF g_hbrOutputBackground = NULL
                  THEN \E made \in CreateSolidBrush(gdi) :
                          /\ g_hbrOutputBackground' = made.handle
                          /\ gdi' = made.gdi
                  ELSE UNCHANGED <<g_hbrOutputBackground, gdi>>
               /\ handled' = [msg |-> "WM_CTLCOLORSTATIC", ok |-> FALSE,
                              control |-> control, brush |-> g_hbrOutputBackground']
          ELSE /\ handled' = [msg |-> "WM_CTLCOLORSTATIC", ok |-> FALSE,
                              control |-> control, brush |-> NULL]
               /\ UNCHANGED <<g_hbrOutputBackground, gdi>>
    /\ UNCHANGED <<pc, g_mWU, g_mLDAP, g_mBugCheck, inputText, outputText, registry,
                   lookup, first>>

\* Destroy without the assignment g_hbrOutputBackground = NULL
DestroyKeepingHandle ==
    /\ pc = "ended"
    /\ pc' = "destroyed"
    /\ gdi' = IF g_hbrOutputBackground # NULL
                 THEN DeleteObject(gdi, g_hbrOutputBackground) ELSE gdi
    /\ handled' = [msg |-> "WM_DESTROY", ok |-> FALSE]
    /\ UNCHANGED <<g_mWU, g_mLDAP, g_mBugCheck, inputText, outputText, registry,
                   lookup, first, g_hbrOutputBackground>>

\* case WM_DESTROY: DialogBox destroys the window of the dialog that
\* EndDialog ended
Destroy ==
    /\ pc = "ended"
    /\ pc' = "destroyed"
    /\ IF g_hbrOutputBackground # NULL
           THEN /\ gdi' = DeleteObject(gdi, g_hbrOutputBackground)
                /\ g_hbrOutputBackground' = NULL
           ELSE UNCHANGED <<g_hbrOutputBackground, gdi>>
    /\ handled' = [msg |-> "WM_DESTROY", ok |-> FALSE]
    /\ UNCHANGED <<g_mWU, g_mLDAP, g_mBugCheck, inputText, outputText, registry,
                   lookup, first>>

\* the program is started again: a new process with its own globals and
\* brushes, the registry stays
Restart ==
    /\ pc \in {"destroyed", "terminated"}
    /\ pc' = "wWinMain"
    /\ g_mWU' = EmptyMap
    /\ g_mLDAP' = EmptyMap
    /\ g_mBugCheck' = EmptyMap
    /\ inputText' = <<>>
    /\ outputText' = <<>>
    /\ handled' = NothingHandled
    /\ lookup' = NoLookup
    /\ g_hbrOutputBackground' = NULL
    /\ gdi' = NoBrushes
    /\ UNCHANGED <<registry, first>>

Next ==
    \/ RunSetWUCodes
    \/ RunSetLDAPCodes
    \/ RunSetBugCheckCodes
    \/ InitDialog
    \/ TypeChar
    \/ Paste
    \/ CommandOK
    \/ CommandButtonSearch
    \/ CommandCancel
    \/ Destroy
    \/ Restart

Spec == Init /\ [][Next]_vars

-----------------------------------------------------------------------------
(* One translation of one text: the specifications under which the parser, *)
(* the formatting and the tables are swept.  They start in the dialog,     *)
(* tables populated, right after a text was pasted, and run one command.   *)

\* texts of up to this many characters over SweepChars are swept
MaxSweepLen == 3

SweepChars == {"0", "1", "F", "x", "-", UnicodeMinus, "g", "+"}

\* all texts over chars of at most n characters
TextsUpTo(chars, n) == UNION {[1..k -> chars] : k \in 0..n}

\* further texts: long literals, both cases, the ends of the int range,
\* values beyond 32 bits, white space
LiteralTexts == PasteTexts \cup {
    <<"5">>,
    <<"2", "6">>,
    <<"0", "X", "1", "a">>,
    <<"0", "x", "0", "0", "0", "0", "0", "0", "1", "a">>,
    <<"0", "x", "0", "9">>,
    <<"0", "x", "0", "0", "0", "0", "0", "0", "0", "0">>,
    <<"0", "x", "F", "F", "F", "F", "F", "F", "F", "F">>,
    <<"0", "x", "f", "f", "f", "f", "f", "f", "f", "f">>,
    <<UnicodeMinus, "1">>,
    <<"-", "0", "x", "1", "A">>,
    <<"-", "2", "1", "4", "5", "1", "2", "4", "3", "5", "1">>,
    <<"0", "x", "C", "0", "0", "0", "0", "2", "1", "A">>,
    <<"-", "1", "0", "7", "3", "7", "4", "1", "2", "8", "6">>,
    <<"0", "x", "8", "0", "0", "0", "0", "0", "0", "0">>,
    <<"-", "2", "1", "4", "7", "4", "8", "3", "6", "4", "8">>,
    <<"2", "1", "4", "7", "4", "8", "3", "6", "4", "7">>,
    <<"2", "1", "4", "7", "4", "8", "3", "6", "4", "8">>,
    <<"4", "2", "9", "4", "9", "6", "7", "2", "9", "5">>,
    <<"4", "2", "9", "4", "9", "6", "7", "2", "9", "6">>,
    <<"4", "2", "9", "4", "9", "6", "7", "3", "2", "2">>,
    <<"0", "x", "1", "0", "0", "0", "0", "0", "0", "1", "A">>,
    <<"1", "2", "-">>,
    <<"5", "g">>,
    <<" ", "5">>,
    <<"0", "x">>
  }

\* the text "0xHHHHLLLL" of the literal of a table entry
KeyHexText(e) == <<"0", "x">> \o HalfToHex(e[1]) \o HalfToHex(e[2])

\* the decimal text of a natural number
RECURSIVE NatText(_)
NatText(n) ==
    IF n < 10 THEN <<DecChars[n + 1]>>
              ELSE NatText(n \div 10) \o <<DecChars[(n % 10) + 1]>>

\* the decimal text of the literal of a table entry read as a signed
\* 32-bit number: k - 2^32 when the high bit of k is set, else k
KeyDecText(e) ==
    IF e[1] >= Half \div 2
        THEN <<"-">> \o NatText((Half - 1 - e[1]) * Half + (Half - e[2]))
        ELSE NatText(e[1] * Half + e[2])

\* the entries of all three tables
AllCodes == WUCodes \o LDAPCodes \o BugCheckCodes

\* the literal that follows the literal of a table entry
NextLiteral(e) ==
    IF e[2] = Half - 1 THEN <<(e[1] + 1) % Half, 0>> ELSE <<e[1], e[2] + 1>>

\* every table key, written in hexadecimal and in signed decimal, and the
\* value after every table key, written in hexadecimal
KeyTexts ==
    {KeyHexText(AllCodes[i]) : i \in 1..Len(AllCodes)}
        \cup {KeyDecText(AllCodes[i]) : i \in 1..Len(AllCodes)}
        \cup {KeyHexText(NextLiteral(AllCodes[i])) : i \in 1..Len(AllCodes)}

\* the tables as wWinMain leaves them
PopulatedWU == setWUCodes(EmptyMap)
PopulatedLDAP == setLDAPCodes(EmptyMap)
PopulatedBugCheck == setBugCheckCodes(EmptyMap)

\* the dialog right after text was pasted into it
Pasted(text) ==
    /\ pc = "dialog"
    /\ g_mWU = PopulatedWU
    /\ g_mLDAP = PopulatedLDAP
    /\ g_mBugCheck = PopulatedBugCheck
    /\ inputText = Take(text, MAXVALUELENTH)
    /\ outputText = <<>>
    /\ registry = [present |-> FALSE, text |-> <<>>]
    /\ handled = [msg |-> "WM_PASTE", ok |-> FALSE]
    /\ lookup = NoLookup
    /\ first = NotRecording
    /\ g_hbrOutputBackground = NULL
    /\ gdi = NoBrushes

InitTexts == \E t \in TextsUpTo(SweepChars, MaxSweepLen) \cup LiteralTexts : Pasted(t)

InitKeys == \E t \in KeyTexts \cup LiteralTexts : Pasted(t)

\* ENTER on the pasted text
OnceOK == handled.msg = "WM_PASTE" /\ CommandOK

\* the search button on the pasted text
OnceButtonSearch == handled.msg = "WM_PASTE" /\ CommandButtonSearch

NextOnce == OnceOK \/ OnceButtonSearch

SpecTexts == InitTexts /\ [][NextOnce]_vars

SpecKeys == InitKeys /\ [][NextOnce]_vars

-----------------------------------------------------------------------------
(* Repeated translations: the specification under which the history of     *)
(* the commands is kept.  It starts in the dialog, tables populated, with  *)
(* a text pasted, and pastes and translates a few texts in any order.      *)

\* the texts pasted: two that are translated and one that is rejected
TwiceTexts == {<<"0", "x", "0", "5">>, <<"-", "1">>, <<"a", "b", "c">>}

InitTwice ==
    /\ pc = "dialog"
    /\ g_mWU = PopulatedWU
    /\ g_mLDAP = PopulatedLDAP
    /\ g_mBugCheck = PopulatedBugCheck
    /\ inputText \in TwiceTexts
    /\ outputText = <<>>
    /\ registry = [present |-> FALSE, text |-> <<>>]
    /\ handled = [msg |-> "WM_PASTE", ok |-> FALSE]
    /\ lookup = NoLookup
    /\ first = Recording
    /\ g_hbrOutputBackground = NULL
    /\ gdi = NoBrushes

\* one of the texts is pasted
PasteTwice == Paste /\ inputText' \in TwiceTexts

NextTwice == PasteTwice \/ CommandOK \/ CommandButtonSearch

SpecTwice == InitTwice /\ [][NextTwice]_vars

-----------------------------------------------------------------------------
(* From one run to the next: the specification under which the stored     *)
(* input is followed through the registry.  It starts in the dialog with   *)
(* a text pasted, runs one command and ends the dialog; between two runs   *)
(* another program can write the registry value.                           *)

\* a text of n zeros
Zeros(n) == [i \in 1..n |-> "0"]

\* the texts pasted: a short one, one of MAXVALUELENTH characters, one
\* that the edit control cuts, and one that is rejected
StartupTexts == {
    <<"0", "x", "1", "A">>,
    Zeros(MAXVALUELENTH - 1) \o <<"5">>,
    Zeros(MAXVALUELENTH) \o <<"5">>,
    <<"a", "b", "c">>
  }

\* the values another program writes: all longer than MAXVALUELENTH
\* characters, by one, by two and by many
ForeignValues == {
    Zeros(MAXVALUELENTH) \o <<"5">>,
    Zeros(MAXVALUELENTH + 1) \o <<"5">>,
    Zeros(MAXVALUELENTH + MAXVALUELENTH)
  }

InitStartup == \E t \in StartupTexts : Pasted(t)

\* between two runs another program sets the registry value LastInput
RegistryWritten ==
    /\ pc \in {"ended", "destroyed", "terminated"}
    /\ \E t \in ForeignValues : registry' = [present |-> TRUE, text |-> t]
    /\ UNCHANGED <<pc, g_mWU, g_mLDAP, g_mBugCheck, inputText, outputText,
                   handled, lookup, first,
                   g_hbrOutputBackground, gdi>>

NextStartup ==
    \/ OnceOK
    \/ OnceButtonSearch
    \/ CommandCancel
    \/ Destroy
    \/ RegistryWritten
    \/ Restart
    \/ RunSetWUCodes
    \/ RunSetLDAPCodes
    \/ RunSetBugCheckCodes
    \/ InitDialog

SpecStartup == InitStartup /\ [][NextStartup]_vars

-----------------------------------------------------------------------------
(* Several writings of one value: the specification under which the        *)
(* reports of texts that denote the same integer are compared.  As in      *)
(* SpecTwice the first command is remembered.                              *)

\* three writings of 26 and two of -1
SameValueTexts == {
    <<"0", "x", "1", "A">>,
    <<"0", "x", "0", "0", "0", "0", "0", "0", "1", "a">>,
    <<"2", "6">>,
    <<"-", "1">>,
    <<"0", "x", "F", "F", "F", "F", "F", "F", "F", "F">>
  }

InitSame ==
    /\ pc = "dialog"
    /\ g_mWU = PopulatedWU
    /\ g_mLDAP = PopulatedLDAP
    /\ g_mBugCheck = PopulatedBugCheck
    /\ inputText \in SameValueTexts
    /\ outputText = <<>>
    /\ registry = [present |-> FALSE, text |-> <<>>]
    /\ handled = [msg |-> "WM_PASTE", ok |-> FALSE]
    /\ lookup = NoLookup
    /\ first = Recording
    /\ g_hbrOutputBackground = NULL
    /\ gdi = NoBrushes

\* one of the writings is pasted
PasteSame == Pasting(SameValueTexts)

NextSame == PasteSame \/ CommandOK \/ CommandButtonSearch

SpecSame == InitSame /\ [][NextSame]_vars

-----------------------------------------------------------------------------
(* The brush of the output: the specification under which the colour       *)
(* requests of the static controls are interleaved with the commands and   *)
(* the end of the dialog, over runs of the program.                        *)

\* the texts pasted while the controls are drawn
BrushTexts == {<<"0", "x", "0", "5">>, <<"a", "b", "c">>}

PasteBrush == Pasting(BrushTexts)

NextBrush ==
    \/ RunSetWUCodes
    \/ RunSetLDAPCodes
    \/ RunSetBugCheckCodes
    \/ InitDialog
    \/ PasteBrush
    \/ CommandOK
    \/ CommandButtonSearch
    \/ CtlColorStatic
    \/ CommandCancel
    \/ Destroy
    \/ Restart

SpecBrush == Init /\ [][NextBrush]_vars

-----------------------------------------------------------------------------
(* Typing: the specification under which the filter of the input edit      *)
(* control is swept.  It starts in the dialog with a text in the control,  *)
(* short or at the EM_LIMITTEXT limit, and the user types; the history     *)
(* keeps the key.                                                          *)

\* the characters typed: digits and hexadecimal digits of both cases, x
\* and X, both minus signs, characters outside the list, control characters
KeyChars == {"1", "a", "F", "x", "X", "-", UnicodeMinus, "g", "+", "BS", "TAB"}

\* the texts the control starts with; the last has MAXVALUELENTH characters
TypingTexts == {<<>>, <<"0">>, Zeros(MAXVALUELENTH - 1) \o <<"5">>}

InitTyping ==
    /\ pc = "dialog"
    /\ g_mWU = PopulatedWU
    /\ g_mLDAP = PopulatedLDAP
    /\ g_mBugCheck = PopulatedBugCheck
    /\ inputText \in TypingTexts
    /\ outputText = <<>>
    /\ registry = [present |-> FALSE, text |-> <<>>]
    /\ handled = [msg |-> "WM_PASTE", ok |-> FALSE]
    /\ lookup = NoLookup
    /\ first = Recording
    /\ g_hbrOutputBackground = NULL
    /\ gdi = NoBrushes

\* the user types one of KeyChars
TypeKey == Typing(KeyChars)

SpecTyping == InitTyping /\ [][TypeKey]_vars

-----------------------------------------------------------------------------
(* Reading a state                                                         *)

\* the commands that start a translation
TranslateCommands == {"IDOK", "IDC_BUTTONSEARCH"}

\* the last thing that happened is a command that started a translation:
\* inputText is the text it read and, when the text was parsed, outputText
\* is its report and lookup holds its locals
Submitted == pc = "dialog" /\ handled.msg \in TranslateCommands

\* the labels of the sections, in the order of the specification
SectionLabels ==
    <<"Win32/HRESULT: ", "NTSTATUS: ", "WU: ", "LDAP: ", "StopCode/BugCheck: ">>

IsLabel(u) == \E r \in 1..Len(SectionLabels) : SectionLabels[r] = u

LabelRank(u) == CHOOSE r \in 1..Len(SectionLabels) : SectionLabels[r] = u

\* a report has the section of a label
HasSection(report, label) == \E i \in 1..Len(report) : report[i] = label

\* the unit that follows a label in a report: <<>> when the report has no
\* such section
TableHit(report, label) ==
    IF \E i \in 1..(Len(report) - 1) : report[i] = label
        THEN <<report[(CHOOSE i \in 1..(Len(report) - 1) : report[i] = label) + 1]>>
        ELSE <<>>

\* the string a populated table stores for v: <<>> when v is not a key
Stored(m, v) == IF v \in DOMAIN m THEN <<m[v]>> ELSE <<>>

-----------------------------------------------------------------------------
(* Claims                                                                  *)

\* C1: the sections of a report come after the numeric header and in the
\* relative order Win32/HRESULT, NTSTATUS, WU, LDAP, StopCode/BugCheck,
\* whatever combination of them is present.
C1_SectionOrder ==
    outputText # <<>> =>
        /\ outputText[1] = "DWORD \t"
        /\ \A i \in 1..Len(outputText) :
              IsLabel(outputText[i]) =>
                  /\ \E h \in 1..(i - 1) : outputText[h] = "Hex \t"
                  /\ \A j \in (i + 1)..Len(outputText) :
                        IsLabel(outputText[j]) =>
                            LabelRank(outputText[i]) < LabelRank(outputText[j])

\* C1 witness: a report with four sections, two from the system and two
\* from the tables
C1_Witness ==
    /\ Submitted /\ handled.ok
    /\ HasSection(outputText, "Win32/HRESULT: ")
    /\ HasSection(outputText, "NTSTATUS: ")
    /\ HasSection(outputText, "LDAP: ")
    /\ HasSection(outputText, "StopCode/BugCheck: ")

\* C2: the report of a value has the section of a table exactly when the
\* value is a key of the table as populated, and the section holds the
\* string stored for it; 0x1A has the stop code MEMORY_MANAGEMENT.
C2_TableSections ==
    (Submitted /\ handled.ok) =>
        /\ TableHit(outputText, "WU: ") = Stored(PopulatedWU, lookup.iValue)
        /\ TableHit(outputText, "LDAP: ") = Stored(PopulatedLDAP, lookup.iValue)
        /\ TableHit(outputText, "StopCode/BugCheck: ")
               = Stored(PopulatedBugCheck, lookup.iValue)
        /\ lookup.iValue = 26 =>
               TableHit(outputText, "StopCode/BugCheck: ") = <<"MEMORY_MANAGEMENT">>

\* C2 witness: 0x1A was translated, and its report has no WU section
C2_Witness ==
    /\ Submitted /\ handled.ok
    /\ lookup.iValue = 26
    /\ TableHit(outputText, "StopCode/BugCheck: ") = <<"MEMORY_MANAGEMENT">>
    /\ ~HasSection(outputText, "WU: ")

\* C3: once wWinMain has populated the tables, they hold the same keys and
\* strings in every state, whatever was looked up.
C3_TablesFixed ==
    pc \in {"dialog", "ended", "destroyed"} =>
        /\ g_mWU = PopulatedWU
        /\ g_mLDAP = PopulatedLDAP
        /\ g_mBugCheck = PopulatedBugCheck

\* C3 witness: a value that no table holds was looked up
C3_Witness ==
    /\ Submitted /\ handled.ok
    /\ lookup.iValue \notin DOMAIN PopulatedWU
    /\ lookup.iValue \notin DOMAIN PopulatedLDAP
    /\ lookup.iValue \notin DOMAIN PopulatedBugCheck

\* C4: a command whose text StrToIntEx rejects runs no translation and
\* changes neither the output nor the registry value.
C4_RejectedChangesNothing ==
    [][(/\ pc = "dialog"
        /\ handled'.msg \in TranslateCommands
        /\ ~StrToIntEx(Take(inputText, MAXVALUELENTH), TRUE).ok)
          => /\ ~handled'.ok
             /\ outputText' = outputText
             /\ registry' = registry
             /\ lookup' = lookup]_vars

\* C4 witness: a text was rejected while an earlier report is displayed
\* and an earlier input is stored
C4_Witness ==
    /\ Submitted /\ ~handled.ok
    /\ outputText # <<>>
    /\ registry.present /\ registry.text # inputText

\* the characters the specification allows in a text: [0-9a-fA-Fx-]
AllowedChars ==
    {UpperHexChars[i] : i \in 1..Len(UpperHexChars)}
        \cup {LowerHexChars[i] : i \in 1..Len(LowerHexChars)} \cup {"x", "-"}

\* a text is an integer literal of the specification: an optional sign,
\* '-' or the Unicode minus, then decimal digits, or 0x or 0X and
\* hexadecimal digits
IsIntegerLiteral(t) ==
    LET body == IF t # <<>> /\ t[1] \in {"-", UnicodeMinus} THEN Tail(t) ELSE t
    IN  \/ /\ body # <<>>
           /\ \A i \in 1..Len(body) : IsDigit(body[i])
        \/ /\ Len(body) >= 3
           /\ body[1] = "0" /\ body[2] \in {"x", "X"}
           /\ \A i \in 3..Len(body) : IsXDigit(body[i])

\* the literals among the texts swept that denote a value outside the
\* signed and the unsigned 32-bit range
OutOfRangeTexts == {
    <<"4", "2", "9", "4", "9", "6", "7", "2", "9", "6">>,
    <<"4", "2", "9", "4", "9", "6", "7", "3", "2", "2">>,
    <<"0", "x", "1", "0", "0", "0", "0", "0", "0", "1", "A">>
  }

\* C5: the parser yields no value for a text that is empty, has a
\* character outside [0-9a-fA-Fx-], is not a well-formed integer literal
\* (such as "1x2" or "12-"), or denotes a value outside the 32-bit range.
C5_RejectsMalformed ==
    (/\ Submitted
     /\ \/ inputText = <<>>
        \/ \E i \in 1..Len(inputText) : inputText[i] \notin AllowedChars
        \/ ~IsIntegerLiteral(inputText)
        \/ inputText \in OutOfRangeTexts)
      => ~handled.ok

\* C6: the parser accepts a literal with an optional sign, '-' or the
\* Unicode minus, in decimal or with 0x or 0X in hexadecimal of either
\* case, and yields the integer it denotes.
C6_AcceptsSignedLiterals ==
    (Submitted /\ IsIntegerLiteral(inputText) /\ inputText \notin OutOfRangeTexts)
      => /\ handled.ok
         /\ inputText \in {<<"-", "1">>, <<UnicodeMinus, "1">>} => lookup.iValue = -1
         /\ inputText \in {<<"2", "6">>, <<"0", "x", "1", "A">>, <<"0", "X", "1", "a">>}
               => lookup.iValue = 26

\* the units of a report between a label and the end of its line
LineAfter(report, label) ==
    LET p == CHOOSE i \in 1..Len(report) : report[i] = label
        q == CHOOSE j \in (p + 1)..(Len(report) + 1) :
                /\ j = Len(report) + 1 \/ report[j] = "CR"
                /\ \A k \in (p + 1)..(j - 1) : report[k] # "CR"
    IN  SubSeq(report, p + 1, q - 1)

\* a text is a decimal numeral without leading zeros of a value below 2^32
IsDwordNumeral(ds) ==
    LET max == <<"4", "2", "9", "4", "9", "6", "7", "2", "9", "5">>
    IN  /\ ds # <<>>
        /\ \A i \in 1..Len(ds) : IsDigit(ds[i])
        /\ Len(ds) = 1 \/ ds[1] # "0"
        /\ Len(ds) <= Len(max)
        /\ Len(ds) = Len(max) =>
              \/ ds = max
              \/ \E i \in 1..Len(ds) :
                    /\ \A j \in 1..(i - 1) : ds[j] = max[j]
                    /\ IndexIn(DecChars, ds[i]) < IndexIn(DecChars, max[i])

\* the word a decimal numeral denotes
RECURSIVE WordOfNumeral(_)
WordOfNumeral(ds) ==
    IF ds = <<>> THEN <<0, 0>>
    ELSE MulAdd(WordOfNumeral(SubSeq(ds, 1, Len(ds) - 1)), 10,
                IndexIn(DecChars, ds[Len(ds)]))

\* the 16-bit value four upper-case hexadecimal digits denote
HalfOfHex(hs) ==
    IndexIn(UpperHexChars, hs[1]) * 4096 + IndexIn(UpperHexChars, hs[2]) * 256
        + IndexIn(UpperHexChars, hs[3]) * 16 + IndexIn(UpperHexChars, hs[4])

\* C7: the header of a report shows the value as DWORD, the unsigned
\* decimal of its bit pattern, as int, the signed decimal, and as Hex, 0x
\* and exactly 8 upper-case hexadecimal digits; all three denote the bit
\* pattern of the parsed value.
C7_HeaderRenderings ==
    (Submitted /\ handled.ok) =>
        LET dword == LineAfter(outputText, "DWORD \t")
            int == LineAfter(outputText, "int \t")
            hex == LineAfter(outputText, "Hex \t")
            negative == int # <<>> /\ int[1] = "-"
            digits == IF negative THEN Tail(int) ELSE int
            pattern == <<HalfOfHex(SubSeq(hex, 3, 6)), HalfOfHex(SubSeq(hex, 7, 10))>>
        IN  /\ Len(hex) = 10 /\ hex[1] = "0" /\ hex[2] = "x"
            /\ \A i \in 3..10 : IndexIn(UpperHexChars, hex[i]) >= 0
            /\ IsDwordNumeral(dword)
            /\ WordOfNumeral(dword) = pattern
            /\ IsDwordNumeral(digits)
            /\ negative => digits # <<"0">>
            /\ (IF negative THEN Negate(WordOfNumeral(digits)) ELSE WordOfNumeral(digits))
                  = pattern
            /\ negative <=> pattern[1] >= Half \div 2
            /\ ToInt(pattern) = lookup.iValue

\* C7 witness: 0xC000021A was translated; its header reads 3221226010,
\* -1073741286 and 0xC000021A
C7_Witness ==
    /\ Submitted /\ handled.ok
    /\ lookup.iValue = -1073741286
    /\ LineAfter(outputText, "DWORD \t") = <<"3", "2", "2", "1", "2", "2", "6", "0", "1", "0">>
    /\ LineAfter(outputText, "Hex \t") = <<"0", "x", "C", "0", "0", "0", "0", "2", "1", "A">>

\* the header of the value whose bits are all set
HeaderMinusOne ==
    <<"DWORD \t", "4", "2", "9", "4", "9", "6", "7", "2", "9", "5", "CR", "LF",
      "int \t", "-", "1", "CR", "LF",
      "Hex \t", "0", "x", "F", "F", "F", "F", "F", "F", "F", "F">>

\* C8: "0x00000000" parses to 0; "0xFFFFFFFF" and "-1" parse to the same
\* value, with the header int -1, DWORD 4294967295, Hex 0xFFFFFFFF.
C8_ZeroAndMinusOne ==
    Submitted =>
        /\ inputText = <<"0", "x", "0", "0", "0", "0", "0", "0", "0", "0">>
              => handled.ok /\ lookup.iValue = 0
        /\ inputText \in {<<"0", "x", "F", "F", "F", "F", "F", "F", "F", "F">>, <<"-", "1">>}
              => /\ handled.ok
                 /\ lookup.iValue = -1
                 /\ SubSeq(outputText, 1, Len(HeaderMinusOne)) = HeaderMinusOne

\* C8 witness: "0xFFFFFFFF" was translated
C8_Witness ==
    /\ Submitted /\ handled.ok
    /\ inputText = <<"0", "x", "F", "F", "F", "F", "F", "F", "F", "F">>
    /\ lookup.iValue = -1

\* the inputs of the table keys with the high bit set: the text, in
\* hexadecimal and in decimal as k - 2^32, the label of the table and the
\* string of the entry
HighBitInputs(codes, label) ==
    UNION {{[text |-> KeyHexText(codes[i]), label |-> label, string |-> codes[i][3]],
            [text |-> KeyDecText(codes[i]), label |-> label, string |-> codes[i][3]]} :
           i \in {j \in 1..Len(codes) : codes[j][1] >= Half \div 2}}

AllHighBitInputs ==
    HighBitInputs(WUCodes, "WU: ") \cup HighBitInputs(LDAPCodes, "LDAP: ")
        \cup HighBitInputs(BugCheckCodes, "StopCode/BugCheck: ")

\* C9: for every table key with the high bit set, the hexadecimal input
\* of the key and the negative decimal input key - 2^32 both find the
\* entry of the key.
C9_BitPatternMatch ==
    Submitted =>
        /\ \A in \in AllHighBitInputs :
              inputText = in.text =>
                  handled.ok /\ TableHit(outputText, in.label) = <<in.string>>
        /\ inputText = <<"-", "2", "1", "4", "5", "1", "2", "4", "3", "5", "1">> =>
              /\ handled.ok
              /\ TableHit(outputText, "WU: ") = Stored(PopulatedWU, ToInt(<<32804, 1>>))
              /\ HasSection(outputText, "WU: ")

\* C9 witness: the stop code 0xDEADDEAD was found from the input -559030611
C9_Witness ==
    /\ Submitted /\ handled.ok
    /\ inputText = <<"-", "5", "5", "9", "0", "3", "0", "6", "1", "1">>
    /\ TableHit(outputText, "StopCode/BugCheck: ") = <<"MANUALLY_INITIATED_CRASH1">>

\* C10 as stated: "0x05" has the LDAP section LDAP_COMPARE_FALSE and
\* neither a WU section nor a StopCode/BugCheck section.
C10_OnlyLdapSection ==
    (Submitted /\ inputText = <<"0", "x", "0", "5">>) =>
        /\ handled.ok
        /\ TableHit(outputText, "LDAP: ") = <<"LDAP_COMPARE_FALSE">>
        /\ ~HasSection(outputText, "WU: ")
        /\ ~HasSection(outputText, "StopCode/BugCheck: ")

\* C10 as amended: "0x05" has the LDAP section LDAP_COMPARE_FALSE, the
\* StopCode/BugCheck section INVALID_PROCESS_ATTACH_ATTEMPT and no WU
\* section.
C10_LdapAndBugCheckSections ==
    (Submitted /\ inputText = <<"0", "x", "0", "5">>) =>
        /\ handled.ok
        /\ TableHit(outputText, "LDAP: ") = <<"LDAP_COMPARE_FALSE">>
        /\ ~HasSection(outputText, "WU: ")
        /\ TableHit(outputText, "StopCode/BugCheck: ")
               = <<"INVALID_PROCESS_ATTACH_ATTEMPT">>

\* C10 witness: "0x05" was translated while the system had no message
C10_Witness ==
    /\ Submitted /\ handled.ok
    /\ inputText = <<"0", "x", "0", "5">>
    /\ HasSection(outputText, "LDAP: ")
    /\ ~HasSection(outputText, "Win32/HRESULT: ")
    /\ ~HasSection(outputText, "NTSTATUS: ")

\* the positions of a label in a report
Positions(report, label) == {i \in 1..Len(report) : report[i] = label}

\* the tables, with the labels of their sections, in the order of the report
LabelledTables ==
    << [label |-> "WU: ", map |-> PopulatedWU],
       [label |-> "LDAP: ", map |-> PopulatedLDAP],
       [label |-> "StopCode/BugCheck: ", map |-> PopulatedBugCheck] >>

\* C11: the report of a value that is a key of more than one table has
\* exactly one section for every table that holds it, whatever an earlier
\* table held, and these sections are in the order WU, LDAP,
\* StopCode/BugCheck.
C11_SectionPerHoldingTable ==
    (Submitted /\ handled.ok) =>
        LET holding == {t \in 1..Len(LabelledTables) :
                           lookup.iValue \in DOMAIN LabelledTables[t].map}
        IN  Cardinality(holding) > 1 =>
                /\ \A t \in holding :
                      Cardinality(Positions(outputText, LabelledTables[t].label)) = 1
                /\ \A t, u \in holding :
                      t < u =>
                          \A i \in Positions(outputText, LabelledTables[t].label),
                             j \in Positions(outputText, LabelledTables[u].label) : i < j

\* C11 witness: the report of 0x05, which the LDAP table and the
\* BugCheck table hold, with the LDAP section first
C11_Witness ==
    /\ Submitted /\ handled.ok
    /\ lookup.iValue = 5
    /\ \E i, j \in 1..Len(outputText) :
          /\ i < j
          /\ outputText[i] = "LDAP: " /\ outputText[i + 1] = "LDAP_COMPARE_FALSE"
          /\ outputText[j] = "StopCode/BugCheck: "

\* the string of the last statement of a populate function that names
\* key k: <<>> when no statement names it
LastDefined(codes, k) ==
    LET named == {i \in 1..Len(codes) : KeyOf(codes, i) = k}
    IN  IF named = {} THEN <<>>
        ELSE <<codes[CHOOSE i \in named : \A j \in named : j <= i][3]>>

\* C12: a table section shows one string, that of the last statement of
\* the populate function that names the key; the report of 0x09 shows
\* LDAP_PARTIAL_RESULTS as its LDAP section and LDAP_REFERRAL_V2 nowhere.
C12_LastDefinitionWins ==
    (Submitted /\ handled.ok) =>
        /\ TableHit(outputText, "WU: ") = LastDefined(WUCodes, lookup.iValue)
        /\ TableHit(outputText, "LDAP: ") = LastDefined(LDAPCodes, lookup.iValue)
        /\ TableHit(outputText, "StopCode/BugCheck: ")
               = LastDefined(BugCheckCodes, lookup.iValue)
        /\ \A t \in 1..Len(LabelledTables) :
              Cardinality(Positions(outputText, LabelledTables[t].label)) <= 1
        /\ lookup.iValue = 9 =>
              /\ TableHit(outputText, "LDAP: ") = <<"LDAP_PARTIAL_RESULTS">>
              /\ \A i \in 1..Len(outputText) : outputText[i] # "LDAP_REFERRAL_V2"

\* C12 witness: "0x09" was translated and LDAP_PARTIAL_RESULTS is displayed
C12_Witness ==
    /\ Submitted /\ handled.ok
    /\ inputText = <<"0", "x", "0", "9">>
    /\ \E i \in 1..Len(outputText) : outputText[i] = "LDAP_PARTIAL_RESULTS"

\* the populate functions, each with the position at which wWinMain calls
\* it and the position it returns to
PopulateSteps == {
    [callAt |-> "wWinMain", returnTo |-> "setLDAPCodes"],
    [callAt |-> "setLDAPCodes", returnTo |-> "setBugCheckCodes"],
    [callAt |-> "setBugCheckCodes", returnTo |-> "DialogBox"]
  }

\* C13: in every step, a populate function runs only at its place in
\* wWinMain, on an empty table that it leaves full; a table changes in no
\* other step of the process; and the dialog starts, and every command is
\* handled, with all three tables full.
C13_PopulatedOnceBeforeDialog ==
    [][/\ \A p \in PopulateSteps :
             (pc' = p.returnTo /\ pc # p.returnTo) => pc = p.callAt
       /\ g_mWU' # g_mWU =>
             \/ pc = "wWinMain" /\ g_mWU = EmptyMap /\ g_mWU' = PopulatedWU
             \/ pc' = "wWinMain" /\ pc \in {"destroyed", "terminated"}
       /\ g_mLDAP' # g_mLDAP =>
             \/ pc = "setLDAPCodes" /\ g_mLDAP = EmptyMap /\ g_mLDAP' = PopulatedLDAP
             \/ pc' = "wWinMain" /\ pc \in {"destroyed", "terminated"}
       /\ g_mBugCheck' # g_mBugCheck =>
             \/ /\ pc = "setBugCheckCodes"
                /\ g_mBugCheck = EmptyMap /\ g_mBugCheck' = PopulatedBugCheck
             \/ pc' = "wWinMain" /\ pc \in {"destroyed", "terminated"}
       /\ (pc' = "DialogBox" \/ pc = "dialog") =>
             /\ g_mWU' = PopulatedWU /\ g_mLDAP' = PopulatedLDAP
             /\ g_mBugCheck' = PopulatedBugCheck
             /\ PopulatedWU # EmptyMap /\ PopulatedLDAP # EmptyMap
             /\ PopulatedBugCheck # EmptyMap]_vars

\* C13 witness: 0x80240001 was found in the WU table, with every table
\* as its populate function left it
C13_Witness ==
    /\ Submitted /\ handled.ok
    /\ inputText = <<"0", "x", "8", "0", "2", "4", "0", "0", "0", "1">>
    /\ HasSection(outputText, "WU: ")
    /\ g_mWU = PopulatedWU /\ g_mLDAP = PopulatedLDAP /\ g_mBugCheck = PopulatedBugCheck

\* the five sources, in the order of the specification
AllSources == <<"Win32/HRESULT", "NTSTATUS", "WU", "LDAP", "StopCode/BugCheck">>

SameAnswers(a, b) == a.win32 = b.win32 /\ a.hDLL = b.hDLL /\ a.nt = b.nt

\* C15: a command on the text of the first command ends as the first
\* did, whatever was translated or rejected in between: rejected if the
\* first was, else parsed to the same integer and, when the system
\* answers as it answered the first and the command sets the output, with
\* the same report unit by unit.
C15_SameInputSameOutcome ==
    (/\ handled.msg \in TranslateCommands
     /\ first.set /\ Take(inputText, MAXVALUELENTH) = first.text) =>
        /\ handled.ok = first.ok
        /\ handled.ok =>
              /\ lookup.iValue = first.lookup.iValue
              /\ (Submitted /\ SameAnswers(lookup, first.lookup))
                    => outputText = first.report

\* C15 witness: "0x05" is translated again with the same answers of the
\* system, after another text was translated and a third was rejected
C15_Witness ==
    /\ Submitted /\ handled.ok
    /\ first.set /\ first.ok
    /\ inputText = first.text /\ inputText = <<"0", "x", "0", "5">>
    /\ first.between = {"translated", "rejected"}
    /\ SameAnswers(lookup, first.lookup)
    /\ HasSection(outputText, "Win32/HRESULT: ")

\* C16: a step stores LastInput exactly when it is a command whose text
\* StrToIntEx accepts, and then the value is the text of the input as it
\* is, not a rendering of the number; every other step leaves the value.
C16_StoredOnTranslationOnly ==
    [][IF /\ pc = "dialog"
          /\ handled'.msg \in TranslateCommands
          /\ StrToIntEx(Take(inputText, MAXVALUELENTH), TRUE).ok
       THEN registry' = [present |-> TRUE, text |-> inputText]
       ELSE registry' = registry]_vars

\* C16 witness: "0x1A" was translated to 26 and the value stored is the
\* text "0x1A", not the number
C16_Witness ==
    /\ Submitted /\ handled.ok
    /\ lookup.iValue = 26
    /\ registry = [present |-> TRUE, text |-> <<"0", "x", "1", "A">>]
    /\ registry.text # IntToWstring(lookup.iValue)

\* C17: the value a translation stores has at most MAXVALUELENTH
\* characters and is the text WM_INITDIALOG would read back; and the
\* dialog starts with the stored value as its input when the value has at
\* most MAXVALUELENTH characters, and with an empty input when it is
\* longer or there is none.
C17_StoredInputReadBack ==
    [][/\ (pc = "dialog" /\ handled'.msg \in TranslateCommands /\ handled'.ok) =>
             /\ registry'.present
             /\ registry'.text = inputText
             /\ Len(registry'.text) <= MAXVALUELENTH
             /\ StoredInput(registry') = inputText
       /\ (pc = "DialogBox" /\ pc' = "dialog") =>
             inputText' = IF registry.present /\ Len(registry.text) <= MAXVALUELENTH
                             THEN registry.text ELSE <<>>]_vars

\* C17 witness: a run starts with the MAXVALUELENTH characters that the
\* run before it translated and stored
C17_Witness ==
    /\ pc = "dialog" /\ handled.msg = "WM_INITDIALOG"
    /\ registry.present
    /\ Len(registry.text) = MAXVALUELENTH
    /\ inputText = registry.text

\* the text of a section of a report: the units after its label, up to
\* the blank line before the next label or to the end of the report
SectionText(report, label) ==
    LET p == CHOOSE i \in 1..Len(report) : report[i] = label
        later == {j \in (p + 1)..Len(report) : IsLabel(report[j])}
        last == IF later = {} THEN Len(report)
                ELSE (CHOOSE j \in later : \A k \in later : j <= k)
                         - Len(<<"CR", "LF", "CR", "LF", label>>)
    IN  SubSeq(report, p + 1, last)

\* C18: the text of the Win32/HRESULT section and the text of the
\* NTSTATUS section of a report end with neither a carriage return nor a
\* line feed (the messages of the system end with CR LF).
C18_SystemTextTrimmed ==
    (Submitted /\ handled.ok) =>
        \A label \in {"Win32/HRESULT: ", "NTSTATUS: "} :
            HasSection(outputText, label) =>
                LET text == SectionText(outputText, label)
                IN  text # <<>> /\ text[Len(text)] \notin {"CR", "LF"}

\* C19: every command that starts a translation either sets the output
\* to the complete report of the value (the header and the section of
\* every source that has the value) and stores the input, or changes
\* nothing.
C19_NoPartialFailure ==
    [][(pc = "dialog" /\ handled'.msg \in TranslateCommands) =>
          \/ /\ pc' = "dialog"
             /\ registry' = [present |-> TRUE, text |-> inputText]
             /\ outputText' = Report(lookup'.iValue, lookup'.win32, lookup'.hDLL,
                                     lookup'.nt, PopulatedWU, PopulatedLDAP,
                                     PopulatedBugCheck)
          \/ /\ pc' = pc
             /\ outputText' = outputText
             /\ registry' = registry
             /\ lookup' = lookup
             /\ <<g_mWU', g_mLDAP', g_mBugCheck'>> = <<g_mWU, g_mLDAP, g_mBugCheck>>]_vars

\* the units of a report that are line breaks
LineBreaks(report) == {i \in 1..Len(report) : report[i] = "CR"}

\* C20: when no table holds the parsed value and the system has a message
\* for it in neither lookup, the command still translates: the input is
\* stored and the output is the three lines DWORD, int and Hex and
\* nothing else, no label and no further line.
C20_HeaderOnly ==
    (/\ Submitted /\ handled.ok
     /\ lookup.win32 = <<>> /\ lookup.nt = <<>>
     /\ \A t \in 1..Len(LabelledTables) : lookup.iValue \notin DOMAIN LabelledTables[t].map)
      => /\ registry = [present |-> TRUE, text |-> inputText]
         /\ outputText = <<"DWORD \t">> \o LineAfter(outputText, "DWORD \t")
                            \o <<"CR", "LF", "int \t">> \o LineAfter(outputText, "int \t")
                            \o <<"CR", "LF", "Hex \t">> \o LineAfter(outputText, "Hex \t")
         /\ LineAfter(outputText, "DWORD \t") = DwordToWstring(lookup.iValue)
         /\ Cardinality(LineBreaks(outputText)) = 2
         /\ \A i \in 1..Len(outputText) : ~IsLabel(outputText[i])

\* C20 witness: 1234567, which no table holds, was translated while the
\* system had no message for it
C20_Witness ==
    /\ Submitted /\ handled.ok
    /\ inputText = <<"1", "2", "3", "4", "5", "6", "7">>
    /\ lookup.win32 = <<>> /\ lookup.nt = <<>>
    /\ outputText[Len(outputText)] = "7"
    /\ Cardinality(LineBreaks(outputText)) = 2

\* the labels of the three lines of the header
HeaderLabels == <<"DWORD \t", "int \t", "Hex \t">>

\* the unit at offset i of a report starts a line after exactly one blank
\* line: the two lines before it end with CR LF, the second of them is
\* empty and the first is not
AfterOneBlankLine(report, i) ==
    /\ i > 6
    /\ SubSeq(report, i - 4, i - 1) = <<"CR", "LF", "CR", "LF">>
    /\ SubSeq(report, i - 6, i - 5) # <<"CR", "LF">>

\* the labels of the sources that have the value of the last translation
PresentLabels ==
    (IF lookup.win32 # <<>> THEN {"Win32/HRESULT: "} ELSE {})
        \cup (IF lookup.hDLL /\ lookup.nt # <<>> THEN {"NTSTATUS: "} ELSE {})
        \cup {LabelledTables[t].label : t \in
                 {t \in 1..Len(LabelledTables) :
                     lookup.iValue \in DOMAIN LabelledTables[t].map}}

\* C21: a report starts with the lines DWORD, int and Hex, each label once
\* and in this order; after them it has, for each source that has the
\* value and for no other, the label of the source exactly once,
\* introduced by exactly one blank line.
C21_LabelsAndBlankLines ==
    (Submitted /\ handled.ok) =>
        /\ outputText[1] = "DWORD \t"
        /\ \A h \in 1..Len(HeaderLabels) :
              Cardinality(Positions(outputText, HeaderLabels[h])) = 1
        /\ \A h \in 2..Len(HeaderLabels) :
              LET p == CHOOSE i \in 1..Len(outputText) : outputText[i] = HeaderLabels[h]
                  q == CHOOSE i \in 1..Len(outputText) : outputText[i] = HeaderLabels[h - 1]
              IN  /\ q < p
                  /\ SubSeq(outputText, p - 2, p - 1) = <<"CR", "LF">>
                  /\ \A i \in (q + 1)..(p - 3) : outputText[i] \notin {"CR", "LF"}
        /\ \A r \in 1..Len(SectionLabels) :
              Cardinality(Positions(outputText, SectionLabels[r]))
                  = IF SectionLabels[r] \in PresentLabels THEN 1 ELSE 0
        /\ \A i \in 1..Len(outputText) :
              IsLabel(outputText[i]) => AfterOneBlankLine(outputText, i)

\* C21 witness: a report with four sections, where the text of the
\* Win32/HRESULT section spans two lines and two table sections follow
\* the NTSTATUS section
C21_Witness ==
    /\ Submitted /\ handled.ok
    /\ PresentLabels = {"Win32/HRESULT: ", "NTSTATUS: ", "LDAP: ", "StopCode/BugCheck: "}
    /\ Cardinality(LineBreaks(outputText)) > 2 + 2 * 4
    /\ outputText[Len(outputText) - 1] = "StopCode/BugCheck: "

\* C22: a command whose input text has more than MAXVALUELENTH characters,
\* or has a character that the input filter lets through at no caret
\* position, is rejected: the text is not cut or read up to that
\* character and then translated.
C22_RejectsLongOrDisallowed ==
    (/\ Submitted
     /\ \/ Len(inputText) > MAXVALUELENTH
        \/ \E i \in 1..Len(inputText) : ~FilterPasses(inputText[i], TRUE))
      => ~handled.ok

\* the characters the filter lets through at every caret position
ListedChars ==
    {"0", "1", "2", "3", "4", "5", "6", "7", "8", "9", "x",
     "a", "b", "c", "d", "e", "f", "A", "B", "C", "D", "E", "F"}

\* the filter of the specification lets ch, typed at caret offset pos,
\* through
Allowed(ch, pos) ==
    \/ ch \in ControlChars
    \/ ch \in {"-", UnicodeMinus} /\ pos = 0
    \/ ch \in ListedChars

\* text with ch inserted at offset pos
InsertedAt(text, ch, pos) ==
    SubSeq(text, 1, pos) \o <<ch>> \o SubSeq(text, pos + 1, Len(text))

\* text without the character before offset pos
DeletedBefore(text, pos) ==
    IF pos = 0 THEN text
    ELSE SubSeq(text, 1, pos - 1) \o SubSeq(text, pos + 1, Len(text))

\* C23 as stated: a typed character is inserted at the caret exactly when
\* it is a control character, a minus sign typed at caret offset 0, or
\* one of 0-9, x, a-f, A-F; every other typed character leaves the text
\* unchanged.
C23_InsertedIffAllowed ==
    [][handled'.msg = "WM_CHAR" =>
          LET ch == first'.key[1]
              pos == first'.key[2]
          IN  /\ inputText' = InsertedAt(inputText, ch, pos) <=> Allowed(ch, pos)
              /\ ~Allowed(ch, pos) => inputText' = inputText]_vars

\* C23, amended: a typed character is passed on to the edit control
\* exactly when it is a control character, a minus sign typed at caret
\* offset 0, or one of 0-9, x, a-f, A-F; every other typed character
\* leaves the text unchanged.  A printable character passed on is
\* inserted at the caret when the text has fewer than MAXVALUELENTH
\* characters and is dropped when it has MAXVALUELENTH; a control
\* character passed on is not inserted, and backspace deletes the
\* character before the caret.
C23_PassedIffAllowed ==
    [][handled'.msg = "WM_CHAR" =>
          LET ch == first'.key[1]
              pos == first'.key[2]
          IN  inputText' =
                 IF ~Allowed(ch, pos) THEN inputText
                 ELSE IF ch = "BS" THEN DeletedBefore(inputText, pos)
                 ELSE IF ch \in ControlChars THEN inputText
                 ELSE IF Len(inputText) < MAXVALUELENTH
                     THEN InsertedAt(inputText, ch, pos)
                 ELSE inputText]_vars

\* C23 witness: a minus sign typed after the "0" of the text was
\* discarded, and the text is still "0"
C23_Witness ==
    /\ handled.msg = "WM_CHAR"
    /\ first.key = <<"-", 1>>
    /\ inputText = <<"0">>

\* C24: in every lookup the second LocalFree is given the buffer that
\* FormatMessage allocated for NTSTATUS or no buffer, never the buffer the
\* first LocalFree was given, whatever the two calls of FormatMessage
\* found and whether or not the second was made.
C24_NoBufferReleasedTwice ==
    (handled.msg \in TranslateCommands /\ handled.ok) =>
        /\ lookup.released[1] \in {"Win32/HRESULT", "NULL"}
        /\ lookup.released[2] \in {"NTSTATUS", "NULL"}

\* C25: whenever the registry value LastInput is present it is a text of
\* at most MAXVALUELENTH characters that StrToIntEx accepts and that
\* WM_INITDIALOG puts into the input edit control as it is; and a command
\* on an input that is the stored text is not rejected and sets the
\* output to the report of its value.
C25_StoredInputResolves ==
    [][/\ registry'.present =>
             /\ Len(registry'.text) <= MAXVALUELENTH
             /\ StrToIntEx(registry'.text, TRUE).ok
             /\ StoredInput(registry') = registry'.text
       /\ (/\ pc = "dialog"
           /\ handled'.msg \in TranslateCommands
           /\ registry.present /\ inputText = registry.text)
            => /\ handled'.ok
               /\ pc' = "dialog"
               /\ outputText' = Report(lookup'.iValue, lookup'.win32, lookup'.hDLL,
                                       lookup'.nt, PopulatedWU, PopulatedLDAP,
                                       PopulatedBugCheck)
               /\ lookup'.iValue = StrToIntEx(registry.text, TRUE).value]_vars

\* C26: a command on a text that is written differently from the text of
\* the first command and denotes the same integer sets, when the system
\* answers as it answered the first, the same report unit by unit, while
\* the stored LastInput is the text of the command as written, not the
\* text of the first.
C26_ReportOfValueOnly ==
    (/\ Submitted /\ handled.ok
     /\ first.set /\ first.ok
     /\ inputText # first.text
     /\ lookup.iValue = first.lookup.iValue
     /\ SameAnswers(lookup, first.lookup))
      => /\ outputText = first.report
         /\ registry = [present |-> TRUE, text |-> inputText]
         /\ registry.text # first.text

\* C26 witness: "26" was translated after "0x1A" and has its report,
\* with a Win32/HRESULT section and the stop code of 26
C26_Witness ==
    /\ Submitted /\ handled.ok
    /\ first.text = <<"0", "x", "1", "A">>
    /\ inputText = <<"2", "6">>
    /\ lookup.iValue = 26 /\ first.lookup.iValue = 26
    /\ SameAnswers(lookup, first.lookup)
    /\ outputText = first.report
    /\ HasSection(outputText, "Win32/HRESULT: ")
    /\ TableHit(outputText, "StopCode/BugCheck: ") = <<"MEMORY_MANAGEMENT">>
    /\ registry.text = <<"2", "6">>

\* the high halves of the keys 0x0024xxxx and 0x8024xxxx
WUHighHalves == {2 * 16 + 4, 8 * 4096 + 2 * 16 + 4}

\* the keys of the WU table as populated are in the two ranges and are
\* keys of no other table as populated
WUKeysApart ==
    /\ \A k \in DOMAIN PopulatedWU : ToDWORD(k)[1] \in WUHighHalves
    /\ DOMAIN PopulatedWU \cap (DOMAIN PopulatedLDAP \cup DOMAIN PopulatedBugCheck) = {}

\* the table sections of a report
TableSections(report) ==
    {t \in 1..Len(LabelledTables) : HasSection(report, LabelledTables[t].label)}

\* C27: every key of the WU table is 0x0024xxxx or 0x8024xxxx and is a
\* key of neither the LDAP nor the BugCheck table; so no report has a WU
\* section together with an LDAP or a StopCode/BugCheck section, and a
\* report has at most two table sections.
C27_WUKeysApart ==
    /\ WUKeysApart
    /\ (Submitted /\ handled.ok) =>
          /\ HasSection(outputText, "WU: ") => TableSections(outputText) = {1}
          /\ Cardinality(TableSections(outputText)) <= 2
          /\ Cardinality(TableSections(outputText)) = 2 => TableSections(outputText) = {2, 3}

\* C27 witness: a key of the WU table with the high bit set was
\* translated, and its report has the WU section as its only table section
C27_Witness ==
    /\ Submitted /\ handled.ok
    /\ lookup.iValue < 0
    /\ lookup.iValue \in DOMAIN PopulatedWU
    /\ ToDWORD(lookup.iValue)[1] = 8 * 4096 + 2 * 16 + 4
    /\ TableSections(outputText) = {1}

\* what a command leaves behind, but for the name of the command
AfterCommand(pcAfter, input, output, reg, locals, ok, result, tables) ==
    <<pcAfter, input, output, reg, locals, ok, result, tables>>

\* what a command that starts a translation leaves behind in the current
\* state: nothing new when StrToIntEx rejects the text (ok is FALSE); else
\* the report and the stored input when the handler returns (pcAfter is
\* "dialog") and the stored input alone when the process is ended, with the
\* answers win32, hDLL and nt of the system
LookupOutcome(ok, win32, hDLL, nt, pcAfter) ==
    LET szValue == Take(inputText, MAXVALUELENTH)
        iValue == StrToIntEx(szValue, TRUE).value
        tables == <<g_mWU, g_mLDAP, g_mBugCheck>>
        locals == [iValue |-> iValue, win32 |-> win32, hDLL |-> hDLL, nt |-> nt,
                   queried |-> Queried(hDLL), released |-> Released(win32, hDLL, nt)]
        stored == [present |-> TRUE, text |-> szValue]
    IN  IF ~ok
            THEN AfterCommand("dialog", inputText, outputText, registry, lookup,
                              FALSE, FALSE, tables)
        ELSE IF pcAfter = "dialog"
            THEN AfterCommand("dialog", inputText,
                              Report(iValue, win32, hDLL, nt, g_mWU, g_mLDAP, g_mBugCheck),
                              stored, locals, TRUE, FALSE, tables)
        ELSE AfterCommand(pcAfter, inputText, outputText, stored,
                          [locals EXCEPT !.queried = <<"Win32/HRESULT">>],
                          TRUE, FALSE, tables)

\* the primed state but for the name of the command
AfterThis ==
    AfterCommand(pc', inputText', outputText', registry', lookup', handled'.ok,
                 handled'.result, <<g_mWU', g_mLDAP', g_mBugCheck'>>)

\* the commands of the dialog
Commands == TranslateCommands \cup {"IDCANCEL"}

TimesReleased(h) == Cardinality({i \in 1..Len(gdi.released) : gdi.released[i] = h})

\* C29: at most one brush exists at any time; g_hbrOutputBackground is
\* NULL or names the brush that exists; no brush was released twice; once
\* WM_DESTROY was handled the brush made before it is released and the
\* handle was NULL right after; and a colour request of the output
\* returns NULL or a brush that exists, one of the other controls none.
C29_OneBrushReleasedOnce ==
    /\ Cardinality(gdi.live) <= 1
    /\ g_hbrOutputBackground # NULL => gdi.live = {g_hbrOutputBackground}
    /\ \A h \in 1..gdi.created : TimesReleased(h) <= 1 /\ (h \in gdi.live <=> TimesReleased(h) = 0)
    /\ Len(gdi.released) > 0 => pc = "destroyed"
    /\ handled.msg = "WM_DESTROY" =>
          /\ g_hbrOutputBackground = NULL
          /\ gdi.live = {}
          /\ Len(gdi.released) = gdi.created
    /\ handled.msg = "WM_CTLCOLORSTATIC" =>
          /\ handled.brush = (IF handled.control = "IDC_OUTPUT"
                                 THEN g_hbrOutputBackground ELSE NULL)
          /\ handled.brush # NULL => handled.brush \in gdi.live
          /\ handled.brush # NULL => TimesReleased(handled.brush) = 0

\* C29 witness: after WM_DESTROY released the first brush, a colour
\* request of the output got a second brush, not the released one
C29_Witness ==
    /\ pc = "destroyed"
    /\ handled.msg = "WM_CTLCOLORSTATIC" /\ handled.control = "IDC_OUTPUT"
    /\ gdi.released = <<1>>
    /\ handled.brush = 2
    /\ gdi.live = {2}

=============================================================================
